---------------------------- MODULE Spec2Model ----------------------------
(***************************************************************************)
(* State-machine model of the HiperCAM GUI run control                     *)
(* (hcam_drivers/utils/hcam.py, widgets.py, misc.py).                      *)
(*                                                                         *)
(* The UI thread runs one handler at a time (Tk event loop), so each       *)
(* handler is one atomic action.  The stop command runs on a worker        *)
(* thread whose statements interleave with UI handlers.  The camera        *)
(* server is the environment: it answers each request with success,        *)
(* failure or an error, and a run ends on its own.                         *)
(***************************************************************************)
EXTENDS Integers, Sequences, FiniteSets, TLC

(***************************************************************************)
(* Bounds of the model (not program constants).                            *)
(***************************************************************************)
MaxPending == 2        \* pending Timer.update callbacks in the Tk queue
MaxStopThreads == 1    \* stop_in_background threads alive at once
MaxChecks == 1         \* pending Stop.check callbacks in the Tk queue
MaxDialogs == 2        \* alarm dialogs raised
MaxSlideCallers == 2   \* threads calling into one Slide at once
MaxSockets == 2        \* sockets one Slide opens
MaxMsCallers == 2      \* threads calling into one MeerstetterTEC1090 at once
MaxFrames == 2         \* frames one MeerstetterTEC1090 assembles
MaxLog == 3            \* lines in the FocalPlaneSlide log
MaxBytes == 6          \* size the FITS file grows to, in blocks
MaxTicks == 4          \* five-minute steps the clock of the PDR900 host makes
MaxCommands == 3       \* commands one NewportESP301 is given

(***************************************************************************)
(* Program constants.                                                      *)
(***************************************************************************)
TickPeriod == 10       \* Timer.update: "if self.count % 10 == 0"
StaleMinutes == 10     \* PDR900.get_latest: "if age > 10*u.min"
GoodBins == {1, 2, 5, 10}   \* Start.act: binnings that fit the overscan

Buttons == {"load", "save", "unfreeze", "start", "stop",
            "powerOn", "powerOff", "ngcReset"}
ObserveButtons == {"load", "save", "unfreeze", "start", "stop"}
SetupButtons == {"ngcReset", "powerOn", "powerOff"}
Levels == 0 .. 2
RunTypes == {"", "data"}            \* a blank and a non-blank RunType.DTYPES
Apps == {"FullFrame", "Windows", "Drift"}
BinChoices == {1, 3}                \* one fitting, one non-fitting binning
Outcomes == {"ok", "fail", "raise"} \* of one HTTP exchange with the server
ThreadPcs == {"none", "begin", "exec", "got_ok", "got_fail", "fin",
              "raised", "exc2"}

VARIABLES
    level,             \* g.cpars['expert_level']
    btn,               \* per ActButton: Tk state, _active, _expert
    run_type_set,      \* Start.run_type_set
    rtype,             \* RunType.val
    hcam_server_on,    \* g.cpars['hcam_server_on']
    eso_server_online, \* g.cpars['eso_server_online']
    runActive,         \* server side: a run is in progress
    count,             \* Timer.count (modulo TickPeriod)
    pending,           \* number of Timer.update callbacks queued in Tk
    timerId,           \* Timer.id: "none", "live" (newest queued), "stale"
    threads,           \* pc of each stop_in_background thread
    stopped_ok,        \* Stop.stopped_ok
    stopping,          \* Stop.stopping
    checks,            \* number of Stop.check callbacks queued in Tk
    pars,              \* InstPars: mode, validity of fields, flags
    vis,               \* InstPars: which expert-only toggles are gridded
    ev,                \* the handler that ran last and how it ended
    mon,               \* one HardwareDisplayWidget: callbacks, thread, queue
    al,                \* AlarmDialog: dialogs, sound processes, callbacks
    sl,                \* Slide: socket, lock, callers and the device
    ms,                \* MeerstetterTEC1090: seq_no, lock, sockets, callers
    fps,               \* FocalPlaneSlide: flag, future, callback, log
    call,              \* one call of a library function: input and outcome
    pipe,              \* FastFITSPipe and the file it reads
    ent,               \* one integer entry widget (RangedMint or ListInt)
    pdr,               \* PDR900: the pressure log and the clock
    esp                \* NewportESP301: execution mode and pending commands

vars == <<level, btn, run_type_set, rtype, hcam_server_on, eso_server_online,
          runActive, count, pending, timerId, threads, stopped_ok, stopping,
          checks, pars, vis, ev, mon, al, sl, ms, fps, call, pipe, ent, pdr,
          esp>>

uiVars == <<btn, run_type_set, count, pending, timerId, checks>>
srvVars == <<hcam_server_on, eso_server_online, runActive>>
stopVars == <<threads, stopped_ok, stopping>>
\* the run-control state: everything but the step label and the hardware
ctlVars == <<level, btn, run_type_set, rtype, hcam_server_on,
             eso_server_online, runActive, count, pending, timerId, threads,
             stopped_ok, stopping, checks, pars, vis>>
\* the hardware monitors and drivers, which no run-control handler touches
\* the library objects, which no handler of the other components touches
libVars == <<call, pipe, ent, pdr, esp>>
hwVars == <<mon, al, sl, ms, fps, libVars>>
\* what the steps of one hardware component leave alone
exceptMon == <<ctlVars, al, sl, ms, fps, libVars>>
exceptAl == <<ctlVars, mon, sl, ms, fps, libVars>>
exceptSl == <<ctlVars, mon, al, ms, fps, libVars>>
exceptMs == <<ctlVars, mon, al, sl, fps, libVars>>
exceptFps == <<ctlVars, mon, al, sl, ms, libVars>>
exceptCall == <<ctlVars, mon, al, sl, ms, fps, pipe, ent, pdr, esp>>
exceptPipe == <<ctlVars, mon, al, sl, ms, fps, call, ent, pdr, esp>>
exceptEnt == <<ctlVars, mon, al, sl, ms, fps, call, pipe, pdr, esp>>
exceptPdr == <<ctlVars, mon, al, sl, ms, fps, call, pipe, ent, esp>>
exceptEsp == <<ctlVars, mon, al, sl, ms, fps, call, pipe, ent, pdr>>

(***************************************************************************)
(* ActButton (widgets.py) and its subclasses, as functions on the record   *)
(* [state, active, expert] of one button.                                  *)
(***************************************************************************)
ActButton_init == [state |-> "normal", active |-> TRUE, expert |-> FALSE]

ActButton_enable(r) == [r EXCEPT !.state = "normal", !.active = TRUE]

ActButton_disable_NoOverride(r) ==
    [r EXCEPT !.state = "disabled", !.active = FALSE]

ActButton_disable(r) ==
    [r EXCEPT !.state = IF r.expert THEN r.state ELSE "disabled",
              !.active = FALSE]

ActButton_setExpert_FlagOnly(r) == [r EXCEPT !.expert = TRUE]

ActButton_setExpert(r) == [r EXCEPT !.expert = TRUE, !.state = "normal"]

ActButton_setNonExpert(r) ==
    LET r1 == [r EXCEPT !.expert = FALSE]
    IN  IF r1.active THEN ActButton_enable(r1) ELSE ActButton_disable(r1)

\* Start.enable: only once a run type has been chosen
Start_enable_Ungated(r, rts) == ActButton_enable(r)

Start_enable(r, rts) == IF rts THEN ActButton_enable(r) ELSE r

Start_disable(r) == ActButton_disable(r)

Start_setNonExpert(r, rts) ==
    LET r1 == [r EXCEPT !.expert = FALSE]
    IN  IF r1.active /\ rts THEN Start_enable(r1, rts) ELSE Start_disable(r1)

\* enable()/disable()/setExpert()/setNonExpert() dispatched on the class
Enable(b, B, rts) ==
    [b EXCEPT ![B] = IF B = "start" THEN Start_enable(@, rts)
                     ELSE ActButton_enable(@)]
Disable(b, B) == [b EXCEPT ![B] = ActButton_disable(@)]

Clickable(B) == btn[B].state = "normal"
\* a button on which disable() has taken effect: activity flag cleared, and
\* greyed out unless the expert override holds it clickable
Disabled(B) == ~btn[B].active /\ (~btn[B].expert => btn[B].state = "disabled")
Expert == level = 2


(***************************************************************************)
(* The UI state that handlers thread through their calls.                  *)
(***************************************************************************)
UI == [btn |-> btn, rts |-> run_type_set, count |-> count,
       pending |-> pending, id |-> timerId, checks |-> checks]

SetUI(u) ==
    /\ btn' = u.btn
    /\ run_type_set' = u.rts
    /\ count' = u.count
    /\ pending' = u.pending
    /\ timerId' = u.id
    /\ checks' = u.checks

(***************************************************************************)
(* misc.isRunActive: raises when the servers are switched off or the       *)
(* exchange fails, else reports the server's state.                        *)
(***************************************************************************)
isRunActive(on, active) ==
    IF ~on THEN {"err"}
    ELSE {"err", IF active THEN "active" ELSE "idle"}

\* the answers a handler can get: none when it does not ask
Replies(asked, active) ==
    IF asked THEN isRunActive(hcam_server_on, active) ELSE {"none"}

\* the guard in front of "not isRunActive(g)" in both check() callbacks
Asks(u) ==
    /\ hcam_server_on /\ eso_server_online
    /\ u.btn["start"].state = "disabled"

\* misc.execCommand: False without any request when the servers are off
execCommand(on) == IF ~on THEN {"fail"} ELSE Outcomes

(***************************************************************************)
(* Timer (widgets.py).  Callbacks fire oldest first; Timer.id names the    *)
(* newest one queued.                                                      *)
(***************************************************************************)
Timer_stop_KeepId(u) == u

Timer_stop(u) ==
    [u EXCEPT !.pending = IF u.id = "live" THEN @ - 1 ELSE @,
              !.id = "none"]

Timer_update_KeepTicking(u, q) ==
    LET c == (u.count + 1) % TickPeriod
        u1 == [u EXCEPT !.count = c]
    IN  IF c % TickPeriod = 0 /\ q = "idle"
        THEN [u1 EXCEPT !.btn =
               Enable(Disable(Enable(Disable(Enable(u1.btn, "start", u1.rts),
                      "stop"), "ngcReset", u1.rts), "powerOn"),
                      "powerOff", u1.rts),
                        !.pending = @ + 1, !.id = "live"]
        ELSE [u1 EXCEPT !.pending = @ + 1, !.id = "live"]

Timer_update(u, q) ==
    LET c == (u.count + 1) % TickPeriod
        u1 == [u EXCEPT !.count = c]
    IN  IF c % TickPeriod = 0 /\ q = "idle"
        THEN Timer_stop([u1 EXCEPT !.btn =
               Enable(Disable(Enable(Disable(Enable(u1.btn, "start", u1.rts),
                      "stop"), "ngcReset", u1.rts), "powerOn"),
                      "powerOff", u1.rts)])
        ELSE [u1 EXCEPT !.pending = @ + 1, !.id = "live"]

Timer_start(u, q) == Timer_update(u, q)

\* the run-active query is made on this tick
Queries(u) == (u.count + 1) % TickPeriod = 0

(***************************************************************************)
(* InstPars (hcam.py).                                                     *)
(***************************************************************************)
InstPars_status_NoExpose(p) == (p.app # "FullFrame" /\ ~p.frozen) => p.winOK

InstPars_status(p) ==
    /\ (p.app # "FullFrame" /\ ~p.frozen) => p.winOK
    /\ p.exposeOK

\* InstPars.check: result status, whether isRunActive raised, new UI state
InstPars_check_NoDisable(u, p, q) ==
    [status |-> InstPars_status(p), raised |-> FALSE, u |-> u]

InstPars_check(u, p, q) ==
    LET status == InstPars_status(p)
        asks == status /\ Asks(u)
    IN  [status |-> status,
         raised |-> asks /\ q = "err",
         u |-> IF status
               THEN IF asks /\ q = "idle"
                    THEN [u EXCEPT !.btn = Enable(u.btn, "start", u.rts)]
                    ELSE u
               ELSE [u EXCEPT !.btn = Disable(u.btn, "start")]]

InstPars_setExpertLevel_Reset(p, l) ==
    IF l = 0
    THEN [p EXCEPT !.led = 0, !.remember_oscany = p.oscany,
                   !.has_remember = TRUE, !.oscany = 0]
    ELSE [p EXCEPT !.oscany = 0]

InstPars_setExpertLevel(p, l) ==
    IF l = 0
    THEN [p EXCEPT !.led = 0, !.remember_oscany = p.oscany,
                   !.has_remember = TRUE, !.oscany = 0]
    ELSE IF p.has_remember
         THEN [p EXCEPT !.oscany = p.remember_oscany]
         ELSE p

\* which expert-only toggles InstPars.setExpertLevel leaves gridded
InstPars_visible(l) == [led |-> l # 0, dummy |-> l # 0, oscany |-> l # 0]

(***************************************************************************)
(* RunType.check (hcam.py)                                                 *)
(***************************************************************************)
RunType_check_NoQuery(u, v, q) ==
    IF v = ""
    THEN [raised |-> FALSE,
          u |-> [u EXCEPT !.rts = FALSE, !.btn = Disable(u.btn, "start")]]
    ELSE [raised |-> FALSE,
          u |-> [u EXCEPT !.rts = TRUE, !.btn = Enable(u.btn, "start", TRUE)]]

RunType_check(u, v, q) ==
    IF v = ""
    THEN [raised |-> FALSE,
          u |-> [u EXCEPT !.rts = FALSE, !.btn = Disable(u.btn, "start")]]
    ELSE LET u1 == [u EXCEPT !.rts = TRUE]
             asks == Asks(u1)
         IN  [raised |-> asks /\ q = "err",
              u |-> IF asks /\ q = "idle"
                    THEN [u1 EXCEPT !.btn = Enable(u1.btn, "start", u1.rts)]
                    ELSE u1]

(***************************************************************************)
(* Observe.setExpertLevel, InstSetup.setExpertLevel                        *)
(***************************************************************************)
Observe_setExpertLevel(b, l, rts) ==
    [B \in Buttons |->
        IF B \notin ObserveButtons THEN b[B]
        ELSE IF l = 2 THEN ActButton_setExpert(b[B])
        ELSE IF B = "start" THEN Start_setNonExpert(b[B], rts)
        ELSE ActButton_setNonExpert(b[B])]

InstSetup_setExpertLevel(b, l) ==
    [B \in Buttons |->
        IF B \notin SetupButtons THEN b[B]
        ELSE IF l = 2 THEN ActButton_setExpert(b[B])
        ELSE ActButton_setNonExpert(b[B])]

(***************************************************************************)
(* Stop.check (widgets.py)                                                 *)
(***************************************************************************)
Stop_check(u, ok, busy) ==
    IF ok
    THEN Timer_stop([u EXCEPT !.btn =
            Enable(Disable(Enable(Disable(u.btn, "stop"), "start", u.rts),
                   "powerOn"), "powerOff", u.rts)])
    ELSE IF busy
    THEN [u EXCEPT !.btn = Disable(Disable(Disable(Disable(u.btn, "stop"),
                              "start"), "powerOn"), "powerOff"),
                   !.checks = @ + 1]
    ELSE [u EXCEPT !.btn = Disable(Disable(Disable(Enable(u.btn, "stop",
                              u.rts), "start"), "powerOn"), "powerOff")]


(***************************************************************************)
(* HardwareDisplayWidget (hcam.py): readings, limits and the ok test.      *)
(* A reading is a float: a number, NaN or an infinity.                     *)
(***************************************************************************)
Num(i) == [k |-> "num", n |-> i]
NaN == [k |-> "nan", n |-> 0]
PosInf == [k |-> "inf", n |-> 1]
NegInf == [k |-> "inf", n |-> -1]

\* floating-point a < b: false whenever either side is NaN
FloatLt(a, b) ==
    /\ a.k # "nan" /\ b.k # "nan"
    /\ IF a.k = "num" /\ b.k = "num" THEN a.n < b.n
       ELSE IF a.k = "num" THEN b.n > 0
       ELSE IF b.k = "num" THEN a.n < 0
       ELSE a.n < b.n

isfinite(v) == v.k = "num"

\* readings an update_function can return, and the limits of two widgets:
\* the chiller (finite limits) and a flow rate (no upper limit)
MonReadings == {Num(i) : i \in 0 .. 3} \cup {NaN, PosInf}
MonLimits == {[lower |-> Num(0), upper |-> Num(2)],
              [lower |-> Num(1), upper |-> PosInf]}

\* the ok test of process_update
Monitor_ok(val, errmsg, lim) ==
    IF ~errmsg /\ FloatLt(val, lim.upper) /\ FloatLt(lim.lower, val)
    THEN TRUE
    ELSE IF isfinite(val) THEN TRUE
    ELSE FALSE

\* update(): the wrapper run on the worker thread; raised = the
\* update_function raised
Monitor_update_DropsErrors(m, raised, val) ==
    [m EXCEPT !.nthreads = @ - 1,
              !.queue = IF raised THEN @
                        ELSE Append(@, [val |-> val, errmsg |-> FALSE])]

Monitor_update(m, raised, val) ==
    [m EXCEPT !.nthreads = @ - 1,
              !.queue = Append(@, IF raised
                                  THEN [val |-> NaN, errmsg |-> TRUE]
                                  ELSE [val |-> val, errmsg |-> FALSE])]

\* start_update(): a thread is started and process_update is queued with
\* after(); m.after counts the callbacks of the widget queued in Tk
Monitor_start_update(m) ==
    [m EXCEPT !.nthreads = @ + 1, !.timer = "process_update",
              !.after = @ + 1]

Monitor_process_update_Restart(m) ==
    IF m.queue = <<>>
    THEN [m EXCEPT !.timer = "start_update", !.after = @ + 1]
    ELSE LET r == Head(m.queue)
             ok == Monitor_ok(r.val, r.errmsg, m.lim)
         IN  [m EXCEPT !.queue = Tail(@),
                       !.shown = r,
                       !.ok = ok,
                       !.bg = IF ok THEN "main" ELSE "warn",
                       !.timer = "start_update",
                       !.after = @ + 1]

Monitor_process_update(m) ==
    IF m.queue = <<>>
    THEN [m EXCEPT !.timer = "process_update", !.after = @ + 1]
    ELSE LET r == Head(m.queue)
             ok == Monitor_ok(r.val, r.errmsg, m.lim)
         IN  [m EXCEPT !.queue = Tail(@),
                       !.shown = r,
                       !.ok = ok,
                       !.bg = IF ok THEN "main" ELSE "warn",
                       !.timer = "start_update",
                       !.after = @ + 1]

Monitor_init(lim) ==
    [timer |-> "start_update", after |-> 1, nthreads |-> 0, queue |-> <<>>,
     ok |-> TRUE, bg |-> "main", shown |-> [val |-> NaN, errmsg |-> FALSE],
     lim |-> lim]

(***************************************************************************)
(* State after the GUI has been built: InstPars.__init__,                  *)
(* Observe.__init__, InstSetup.__init__, Stop.__init__, Timer.__init__.    *)
(***************************************************************************)
(* AlarmDialog (alarms.py).  Each dialog may own a sound process; the      *)
(* escalation kill_after is a Tk after() callback of the dialog.           *)
(* Tk deletes the callback commands of a widget when it is destroyed, so   *)
(* a callback still queued for a destroyed dialog never runs.              *)
(***************************************************************************)
Dialogs == 1 .. MaxDialogs
DismissPaths == {"ok", "ack", "return", "wm_close"}
KillCountdown == 5

\* state: "none" (not created), "open", "destroyed"
\* proc: "none", "running", "termed" (SIGTERM sent, still alive),
\*       "exited" (ended by itself or on SIGTERM), "killed" (SIGKILL sent)
\* after: a kill_after callback is queued; countdown: its argument
\* reaped: stdout closed and wait() called
Dialog_none ==
    [state |-> "none", proc |-> "none", after |-> FALSE, countdown |-> 0,
     reaped |-> FALSE]

Alarm_init == [alarm_playing |-> FALSE, dlg |-> [d \in Dialogs |-> Dialog_none]]

Alive(r) == r.proc \in {"running", "termed"}

\* AlarmDialog.__init__
AlarmDialog_init(a, d, play_sound) ==
    IF play_sound /\ ~a.alarm_playing
    THEN [a EXCEPT !.alarm_playing = TRUE,
                   !.dlg[d] = [Dialog_none EXCEPT !.state = "open",
                                                  !.proc = "running"]]
    ELSE [a EXCEPT !.dlg[d] = [Dialog_none EXCEPT !.state = "open"]]

\* kill_after(countdown), called with the process in state r.proc
kill_after(r, countdown) ==
    IF Alive(r)
    THEN IF countdown - 1 < 0
         THEN [r EXCEPT !.proc = "killed", !.after = FALSE,
                        !.countdown = countdown - 1, !.reaped = TRUE]
         ELSE [r EXCEPT !.after = TRUE, !.countdown = countdown - 1]
    ELSE [r EXCEPT !.after = FALSE, !.reaped = TRUE]

\* kill_proc(proc); quick = the process exits between terminate() and the
\* first poll of kill_after
kill_proc(r, quick) ==
    IF ~Alive(r)
    THEN r
    ELSE kill_after([r EXCEPT !.proc = IF quick THEN "exited" ELSE "termed"],
                    KillCountdown)

\* kill_alarm
kill_alarm(a, d, quick) ==
    [a EXCEPT !.dlg[d] = IF @.proc # "none" THEN kill_proc(@, quick) ELSE @,
              !.alarm_playing = FALSE]

\* teardown: withdraw and destroy the dialog
teardown(a, d) == [a EXCEPT !.dlg[d].state = "destroyed"]

\* ack (ACK button, window-manager close) and cancel (OK button, Return)
AlarmDialog_dismiss(a, d, quick) == teardown(kill_alarm(a, d, quick), d)

(***************************************************************************)
(* Slide (hardware/slide.py): one socket, one lock, the callers' position  *)
(* in _sendRecv, and the device's settings byte.                           *)
(***************************************************************************)
SlideCallers == 1 .. MaxSlideCallers
SlideOps == {"position", "home", "reset"}
ERROR == 255
HomedBit == 128          \* bit 7 of the settings byte
POTENTIOM_OFF == 8

\* the packet a call sends first
FirstPacket(op) ==
    CASE op = "position" -> "RETURN_SETTING"
      [] op = "home" -> "HOME"
      [] op = "reset" -> "RESET"

\* pc: "idle", "check" (test self.sock is None), "connect", "lock",
\*     "send", "recv", "eval" (the caller of _sendRecv looks at the reply)
Caller_idle ==
    [pc |-> "idle", op |-> "none", pkt |-> "none", sentOn |-> 0,
     b1 |-> 0, setting |-> 0, posSent |-> FALSE, result |-> "none"]

\* connected = Slide.__init__ found the device listening
Slide_init(connected, homed) ==
    [sock |-> IF connected THEN 1 ELSE 0,
     nsock |-> IF connected THEN 1 ELSE 0,
     lock |-> 0,
     devHomed |-> homed,
     th |-> [t \in SlideCallers |-> Caller_idle]]

\* the device's settings byte
SettingsByte(homed) == (IF homed THEN HomedBit ELSE 0) + POTENTIOM_OFF

\* byteArr[2] & 128
Bit7(b) == (b \div HomedBit) % 2 = 1

\* threading.Lock: acquire succeeds only on a free lock
Lock_free_Always(l) == TRUE

Lock_free(l) == l = 0

\* _hasBeenHomed on a reply that is not an error reply
hasBeenHomed_AnySetting(b) == b # 0

hasBeenHomed(b) == Bit7(b)

\* the raise of SlideError (or of the socket's own error) ends the call
Caller_fail(c) ==
    [Caller_idle EXCEPT !.result = "error", !.op = c.op, !.setting = c.setting]

\* the call returns
Caller_return(c) == [Caller_idle EXCEPT !.result = "ok"]

(***************************************************************************)
(* MeerstetterTEC1090 (hardware/meerstetter.py): frames, the checksum and  *)
(* the test of a response.  The CRC-16 of the code is a function of the    *)
(* characters before it; here it is their sum modulo CrcMod.               *)
(***************************************************************************)
MsCallers == 1 .. MaxMsCallers
CrcMod == 4
SeqStart == {1, 1000}         \* ends of random.randint(1, 1000)

\* character codes of the control characters
Ord(ctl) == CASE ctl = "#" -> 35 [] ctl = "!" -> 33 [] OTHER -> 63

\* crc_calc over control character, address, sequence number and payload
crc_calc(ctl, addr, seq, payload) == (Ord(ctl) + addr + seq + payload) % CrcMod

\* _assemble_frame, given the sequence number it read
Frame(addr, seq, payload) ==
    [ctl |-> "#", addr |-> addr, seq |-> seq, payload |-> payload,
     crc |-> crc_calc("#", addr, seq, payload)]

\* a response: empty (the peer closed), or control character, address,
\* sequence number, payload and checksum
EmptyResponse == [ctl |-> "", addr |-> 0, seq |-> 0, payload |-> 0, crc |-> 0]

Responses(frame) ==
    {EmptyResponse} \cup
    [ctl : {"!", "?"}, addr : {frame.addr}, seq : {frame.seq, frame.seq + 1},
     payload : {0}, crc : 0 .. CrcMod - 1]

\* what a conversation can read back: an acknowledgement carrying the
\* frame's own checksum, a reply to another frame, or nothing
WireResponses(frame) ==
    {EmptyResponse,
     [ctl |-> "!", addr |-> frame.addr, seq |-> frame.seq, payload |-> 0,
      crc |-> frame.crc],
     [ctl |-> "!", addr |-> frame.addr, seq |-> frame.seq + 1, payload |-> 0,
      crc |-> crc_calc("!", frame.addr, frame.seq + 1, 0)]}

\* _check_response: "accepted", or the exception it raises
check_response_OwnCrcOnly(frame, ret) ==
    IF ret.ctl = "" THEN "IndexError"
    ELSE IF ret.ctl = "!" /\ frame.addr = ret.addr /\ frame.seq = ret.seq
    THEN IF crc_calc(ret.ctl, ret.addr, ret.seq, ret.payload) # ret.crc
         THEN "IOError" ELSE "accepted"
    ELSE "IOError"

check_response(frame, ret) ==
    IF ret.ctl = "" THEN "IndexError"
    ELSE IF ret.ctl = "!" /\ frame.addr = ret.addr /\ frame.seq = ret.seq
    THEN IF /\ crc_calc(ret.ctl, ret.addr, ret.seq, ret.payload) # ret.crc
            /\ frame.crc # ret.crc
         THEN "IOError" ELSE "accepted"
    ELSE "IOError"

\* "'Welcome' not in welcome.decode()"; the preamble is modelled by
\* whether it holds the word
HasWelcome_Any(w) == TRUE

HasWelcome(w) == w = "Welcome"

\* pc: "idle", "asm_read", "asm_load", "asm_store" (_assemble_frame),
\*     "lock", "connect", "welcome", "send", "recv", "close", "unlock"
\*     (_send_frame), "check" (_check_response)
MsCaller_idle ==
    [pc |-> "idle", frame |-> Frame(0, 0, 0), tmp |-> 0, preamble |-> "",
     ret |-> EmptyResponse, result |-> "none"]

Meerstetter_init(seq) ==
    [seq_no |-> seq, lock |-> 0, open |-> {}, frames |-> <<>>,
     th |-> [t \in MsCallers |-> MsCaller_idle]]

\* the call ends: returns, or raises err
MsCaller_end(c, res) == [MsCaller_idle EXCEPT !.result = res]

(***************************************************************************)
(* FocalPlaneSlide (hardware/slide.py): the widget that runs slide         *)
(* commands as background futures and polls them from a Tk callback.       *)
(***************************************************************************)
\* the buttons of the widget; "park" stands for a name action() does not know
FpsKnown == {"home", "unblock", "block", "position", "reset", "restore",
             "enable", "disable", "stop"}
FpsComms == FpsKnown \cup {"goto", "park"}
FpsArgs == {"None", "int"}          \* comm[1] of a goto

Warn(msg) == [lvl |-> "warn", msg |-> msg]
Info(msg) == [lvl |-> "info", msg |-> msg]

\* FocalPlaneSlide.__init__, with g.cpars['focal_plane_slide_on'] = on
FocalPlaneSlide_init(on) ==
    [on |-> on, running_future |-> "None", ready |-> FALSE, after |-> 0,
     where |-> "UNDEF", log |-> <<>>]

\* "g.cpars['focal_plane_slide_on']"
SlideAccessOn_Always(f) == TRUE

SlideAccessOn(f) == f.on

startSlideCommand_NoGuard(f, comm) ==
    [f EXCEPT !.running_future = comm, !.ready = FALSE, !.after = @ + 1]

\* startSlideCommand(command); the future is named by the command it runs
startSlideCommand(f, comm) ==
    IF f.running_future # "None"
    THEN [f EXCEPT !.log = Append(@, Warn("already running"))]
    ELSE [f EXCEPT !.running_future = comm, !.ready = FALSE,
                   !.after = @ + 1]

\* FocalPlaneSlide.action(*comm)
FocalPlaneSlide_action(f, comm, arg) ==
    IF ~SlideAccessOn(f)
    THEN [f EXCEPT !.log = Append(@, Warn("access is OFF"))]
    ELSE LET g == [f EXCEPT !.log = Append(@, Info("Executing command"))]
         IN  IF comm \in FpsKnown \/ (comm = "goto" /\ arg # "None")
             THEN startSlideCommand([g EXCEPT !.where = comm], comm)
             ELSE IF comm = "goto"
             THEN [g EXCEPT !.log = Append(@, Warn("enter a position"))]
             ELSE [g EXCEPT !.log = Append(@, Warn("not implemented"))]

\* checkSlideCommand, run from the Tk callback; raised tells whether
\* reading the future's value raises
checkSlideCommand(f, raised) ==
    IF f.running_future # "None" /\ ~f.ready
    THEN f
    ELSE [f EXCEPT !.after = @ - 1,
                   !.running_future = "None",
                   !.ready = FALSE,
                   !.log = IF raised
                           THEN @ \o <<Warn("Error in Slide thread"),
                                       Warn("You may want to try again")>>
                           ELSE Append(@, Info("result"))]

(***************************************************************************)
(* Library functions and objects (utils/misc.py, utils/web.py,             *)
(* utils/widgets.py, hardware/vacuum.py, hardware/thingsboard/utils.py).   *)
(***************************************************************************)
\* no call made
NoCall == [fn |-> "none"]
NoPipe == [open |-> FALSE]
NoEntry == [kind |-> "none"]
NoPDR == [logging |-> FALSE]
NoESP == [built |-> FALSE]

\* the library objects before any of them is constructed
LibIdle ==
    /\ call = NoCall
    /\ pipe = NoPipe
    /\ ent = NoEntry
    /\ pdr = NoPDR
    /\ esp = NoESP

(***************************************************************************)
(* ReadServer (utils/misc.py).  A response body is either not JSON or a    *)
(* dictionary, written as a record whose absent keys hold "absent".  A     *)
(* file name is a run of non-digits, a run of digits and a tail.           *)
(***************************************************************************)
InvalidJSON == [json |-> FALSE]
DigitRuns == {<<>>, <<7>>, <<4, 2>>, <<0, 4, 2>>, <<9, 9>>}
FileNames ==
    [lead : {"", "run"}, digits : DigitRuns, tail : {".fits", "fits", ".fit"}]
NoName == [lead |-> "", digits |-> <<>>, tail |-> "absent"]
Bodies ==
    {InvalidJSON} \cup
    [json : {TRUE},
     RETCODE : {"absent", "OK", "FAIL"},
     MESSAGEBUFFER : {"absent", "msg"},
     subStateName : {"absent", "idle", "active", "busy"},
     newDataFileName : {NoName} \cup FileNames,
     expStatusName : {"absent", "success", "aborted", "integrating", "other"}]

\* int() of a string of decimal digits
RECURSIVE Dec(_)
Dec(ds) == IF ds = <<>> THEN 0
           ELSE 10 * Dec(SubSeq(ds, 1, Len(ds) - 1)) + ds[Len(ds)]

\* re.match('\D*(\d*).*.fits', name): whether it matches, and group(1):
\* the leading digits, less the last one when nothing else stands before
\* 'fits'
MatchGroup(name) ==
    IF name.tail = ".fits" THEN [matched |-> TRUE, group |-> name.digits]
    ELSE IF name.tail = "fits"
    THEN IF name.digits # <<>>
         THEN [matched |-> TRUE,
               group |-> SubSeq(name.digits, 1, Len(name.digits) - 1)]
         ELSE [matched |-> name.lead # "", group |-> <<>>]
    ELSE [matched |-> FALSE, group |-> <<>>]

\* the run number for a matched group and an exposure state
RunOf_NoIncrement(run_number, exposure_state) ==
    IF exposure_state \in {"success", "aborted", "integrating"}
    THEN run_number ELSE 0

RunOf(run_number, exposure_state) ==
    IF exposure_state \in {"success", "aborted"} THEN run_number
    ELSE IF exposure_state = "integrating" THEN run_number + 1
    ELSE 0

\* the try block of ReadServer.__init__: AttributeError (no match) and
\* ValueError (int(''), unknown exposure state) give run 0
RunNumber(name, exposure_state) ==
    LET m == MatchGroup(name)
    IN  IF ~m.matched \/ m.group = <<>> THEN 0
        ELSE RunOf(Dec(m.group), exposure_state)

\* a ReadServer: the exception __init__ raised ("none" when it returned),
\* the attributes it has assigned and their values
ReadServer_blank ==
    [raised |-> "none", attrs |-> {}, ok |-> FALSE, err |-> "",
     state |-> "None", run |-> 0, msg |-> ""]

\* ReadServer.__init__(resp, status_msg)
ReadServer_init(body, status_msg) ==
    IF ~body.json
    THEN [ReadServer_blank EXCEPT !.attrs = {"ok", "err", "state", "root"},
            !.ok = FALSE, !.err = "Could not parse JSON response"]
    ELSE IF body.RETCODE = "absent"
    THEN [ReadServer_blank EXCEPT !.attrs = {"root", "ok", "err", "state"},
            !.ok = FALSE, !.err = "Could not identify status"]
    ELSE LET ok0 == (body.RETCODE = "OK")
         IN
         IF ~status_msg
         THEN IF body.MESSAGEBUFFER = "absent"
              THEN [ReadServer_blank EXCEPT !.raised = "KeyError",
                      !.attrs = {"root", "ok", "state", "run", "err"},
                      !.ok = ok0]
              ELSE [ReadServer_blank EXCEPT
                      !.attrs = {"root", "ok", "state", "run", "err", "msg"},
                      !.ok = ok0, !.msg = body.MESSAGEBUFFER]
         ELSE IF body.subStateName = "absent"
         THEN [ReadServer_blank EXCEPT !.raised = "KeyError",
                 !.attrs = {"root", "ok"}, !.ok = ok0]
         ELSE LET r == [ReadServer_blank EXCEPT
                          !.attrs = {"root", "ok", "err", "state"},
                          !.ok = TRUE, !.state = body.subStateName]
              IN  IF body.newDataFileName.tail = "absent"
                       \/ body.expStatusName = "absent"
                  THEN [r EXCEPT !.raised = "KeyError"]
                  ELSE [r EXCEPT !.attrs = @ \cup {"run"},
                                 !.run = RunNumber(body.newDataFileName,
                                                   body.expStatusName)]

(***************************************************************************)
(* execCommand and isRunActive (utils/misc.py), one call each.  The        *)
(* network gives back a body, refuses (URLError) or times out while the    *)
(* body is read (socket.timeout, which is no URLError).                    *)
(***************************************************************************)
Commands == {"start", "stop", "abort", "online", "off", "standby", "reset"}
NetErrors == {"URLError", "timeout"}
\* the replies to a command carry no status fields
CommandBodies ==
    {b \in Bodies :
       b.json => /\ b.subStateName = "absent"
                 /\ b.newDataFileName = NoName
                 /\ b.expStatusName = "absent"}
\* the replies to 'summary' as far as isRunActive reads them
SummaryBodies ==
    {b \in Bodies :
       b.json => /\ b.newDataFileName.lead = "run"
                 /\ b.newDataFileName.digits \in {<<>>, <<4, 2>>}}
NetReplies(bodies) ==
    [err : NetErrors, body : {InvalidJSON}] \cup [err : {"none"}, body : bodies]

\* what a call did: value returned ("None" when it raised), exception
\* raised, number of HTTP requests made, lines logged
Outcome(ret, raised, requests, log) ==
    [ret |-> ret, raised |-> raised, requests |-> requests, log |-> log]
NoOutcome == Outcome("None", "none", 0, <<>>)

\* execCommand past the test of hcam_server_on
execCommand_request(command, net) ==
    LET said == <<Info("execCommand, command")>>
    IN  IF net.err = "URLError"
        THEN Outcome("False", "none", 1,
                     said \o <<Warn("execCommand failed"), Warn("URLError")>>)
        ELSE IF net.err = "timeout"
        THEN Outcome("None", "timeout", 1, said)
        ELSE LET rs == ReadServer_init(net.body, FALSE)
             IN  IF rs.raised # "none"
                 THEN Outcome("None", rs.raised, 1, said)
                 ELSE IF rs.ok
                 THEN Outcome("True", "none", 1,
                              said \o <<Info("Response from server was OK")>>)
                 ELSE Outcome("False", "none", 1,
                              said \o <<Warn("Response from server was not OK"),
                                        Warn("Reason")>>)

\* execCommand(g, command)
execCommand_call_NoGate(on, command, net) == execCommand_request(command, net)

execCommand_call(on, command, net) ==
    IF ~on
    THEN Outcome("False", "none", 0, <<Warn("servers are not active")>>)
    ELSE execCommand_request(command, net)

\* isRunActive: the answer for a parsed state
isRunActive_state_NonIdle(state) ==
    IF state = "idle" THEN Outcome("False", "none", 1, <<>>)
    ELSE Outcome("True", "none", 1, <<>>)

isRunActive_state(state) ==
    IF state = "idle" THEN Outcome("False", "none", 1, <<>>)
    ELSE IF state = "active" THEN Outcome("True", "none", 1, <<>>)
    ELSE Outcome("None", "DriverError", 1, <<>>)

\* isRunActive(g)
isRunActive_call(on, net) ==
    IF ~on THEN Outcome("None", "DriverError", 0, <<>>)
    ELSE IF net.err # "none" THEN Outcome("None", net.err, 1, <<>>)
    ELSE LET rs == ReadServer_init(net.body, TRUE)
         IN  IF rs.raised # "none" THEN Outcome("None", rs.raised, 1, <<>>)
             ELSE IF ~rs.ok THEN Outcome("None", "DriverError", 1, <<>>)
             ELSE isRunActive_state(rs.state)

(***************************************************************************)
(* upload_telemetry (hardware/thingsboard/utils.py).  data is modelled by  *)
(* the set of its keys.                                                    *)
(***************************************************************************)
Ccds == {"ccd1", "ccd2", "ccd3", "ccd4", "ccd5"}
\* the keys of DEVICE_ACCESS_TOKENS
TokenDevices == Ccds \cup {"ngc", "compo", "rack", "chiller", "slide"}
\* the keys of ALLOWED_PROPERTIES
PropertyDevices == {"ngc", "rack", "chiller", "slide", "compo"} \cup Ccds
ALLOWED_PROPERTIES(device) ==
    CASE device = "ngc" -> {"flow"}
      [] device = "rack" -> {"temperature", "humidity"}
      [] device = "chiller" -> {"temperature"}
      [] device = "slide" -> {"position"}
      [] device = "compo" -> {"injection.angle", "pickoff.angle",
                              "slide.position"}
      [] OTHER -> {"temperature", "flow", "pressure", "current", "heatsink",
                   "peltier.status"}
Metrics == {"temperature", "flow", "pressure", "current", "heatsink",
            "peltier.status", "humidity", "position", "slide.position"}
DeviceNames == {"ccd1", "CCD1", "ccd5", "ngc", "rack", "chiller", "slide",
                "compo", "unknown_device"}
\* device.lower()
Lower(device) == IF device = "CCD1" THEN "ccd1" ELSE device
PostResults == {"ok", "ConnectionError", "HTTPError"}

\* upload_telemetry(device, data); post is what requests.post and
\* raise_for_status lead to
upload_telemetry(device, keys, post) ==
    LET dev == Lower(device)
    IN  IF dev \notin PropertyDevices
        THEN Outcome("None", "KeyError", 0, <<>>)
        ELSE IF \E key \in keys : key \notin ALLOWED_PROPERTIES(dev)
        THEN Outcome("None", "ValueError", 0, <<>>)
        ELSE IF dev \notin TokenDevices
        THEN Outcome("None", "ValueError", 0, <<>>)
        ELSE IF post = "ok" THEN Outcome("None", "none", 1, <<>>)
        ELSE Outcome("None", post, 1, <<>>)

(***************************************************************************)
(* FastFITSPipe (utils/web.py) on a file that is still being written.      *)
(* Sizes and positions are counted in blocks; the header takes HeaderSize  *)
(* of them.                                                                *)
(***************************************************************************)
HeaderSize == 2         \* blocks the FITS header takes in the file
FrameSizes == {1, 2}
FrameNumbers == 1 .. 3

\* FastFITSPipe(fileobj) on a file of size blocks whose header gives
\* frames of framesize blocks; cached: the lazy properties hdr and
\* framesize have been evaluated
FastFITSPipe_init(size, framesize) ==
    [open |-> TRUE, size |-> size, pos |-> 0, framesize |-> framesize,
     cached |-> FALSE,
     last |-> [op |-> "init", raised |-> "none", nbytes |-> 0, from |-> 0]]

\* self.framesize: the first use reads the header from position 0
framesize_get(p) ==
    IF p.cached THEN p ELSE [p EXCEPT !.pos = HeaderSize, !.cached = TRUE]

\* fileobj.read(n): the number of bytes it gives
Avail(p, n) ==
    IF p.size - p.pos >= n THEN n
    ELSE IF p.size > p.pos THEN p.size - p.pos ELSE 0

\* seek_frame(frame_number)
seek_frame(p, frame_number) ==
    [framesize_get(p) EXCEPT
       !.pos = HeaderSize + p.framesize * (frame_number - 1),
       !.last = [op |-> "seek", raised |-> "none", nbytes |-> 0,
                 from |-> p.pos]]

\* read_frame_bytes()
read_frame_bytes_NoRestore(p) ==
    LET q == framesize_get(p)
        n == Avail(q, q.framesize)
    IN  [q EXCEPT !.pos = q.pos + n,
                  !.last = [op |-> "read",
                            raised |-> IF n # q.framesize THEN "EOFError"
                                       ELSE "none",
                            nbytes |-> IF n # q.framesize THEN 0 ELSE n,
                            from |-> q.pos]]

read_frame_bytes(p) ==
    LET start_pos == p.pos
        q == framesize_get(p)
        n == Avail(q, q.framesize)
    IN  IF n # q.framesize
        THEN [q EXCEPT !.pos = start_pos,
                       !.last = [op |-> "read", raised |-> "EOFError",
                                 nbytes |-> 0, from |-> q.pos]]
        ELSE [q EXCEPT !.pos = q.pos + n,
                       !.last = [op |-> "read", raised |-> "none",
                                 nbytes |-> n, from |-> q.pos]]

(***************************************************************************)
(* RangedMint (utils/widgets.py): an integer entry locked to multiples of  *)
(* the value of another entry, mfac.  A blank field has blank = TRUE.      *)
(***************************************************************************)
Steps == {-10, -1, 1, 10, 100}      \* arguments of add and sub
Factors == {1, 2, 3, 8, 12}         \* values of the binning entry mfac
Ranges == {<<1, 1024>>, <<1, 520>>} \* imin, imax as WinPairs passes them
Typed == {1, 5, 520, 1024}          \* values a user types or loadJSON sets

\* RangedMint(master, ival, imin, imax, mfac, ...)
RangedMint_init(ival, imin, imax, chunk) ==
    [kind |-> "RangedMint", value |-> ival, blank |-> FALSE, imin |-> imin,
     imax |-> imax, chunk |-> chunk, op |-> "init", n |-> 0]

Min2(a, b) == IF a < b THEN a ELSE b
Max2(a, b) == IF a > b THEN a ELSE b

\* RangedMint._min and _max
Mint_min(e) ==
    LET mval == e.chunk * (e.imin \div e.chunk)
    IN  IF mval < e.imin THEN mval + e.chunk ELSE mval
Mint_max(e) == e.chunk * (e.imax \div e.chunk)

\* the multiple add and sub move to from the arithmetic result val
Mint_lock_Nearest(e, val, up) ==
    IF val % e.chunk > 0 THEN e.chunk * (val \div e.chunk) ELSE val

Mint_lock(e, val, up) ==
    IF val % e.chunk > 0
    THEN IF up THEN e.chunk * (val \div e.chunk + 1)
         ELSE e.chunk * (val \div e.chunk)
    ELSE val

\* IntegerEntry.set(num)
Entry_set(e, num) == [e EXCEPT !.value = num, !.blank = FALSE]

\* RangedMint.add(num) and sub(num), num # 0; value() of a blank field is
\* None and the sum raises, which leaves val = num (or -num)
RangedMint_add(e, num) ==
    LET val == IF e.blank THEN num ELSE e.value + num
        locked == Mint_lock(e, val, num > 0)
    IN  [Entry_set(e, Max2(Mint_min(e), Min2(Mint_max(e), locked)))
           EXCEPT !.op = "add", !.n = num]

RangedMint_sub(e, num) ==
    LET val == IF e.blank THEN -num ELSE e.value - num
        locked == Mint_lock(e, val, num < 0)
    IN  [Entry_set(e, Max2(Mint_min(e), Min2(Mint_max(e), locked)))
           EXCEPT !.op = "sub", !.n = num]

(***************************************************************************)
(* ListInt (utils/widgets.py): an integer entry over a list of allowed     *)
(* values, with the index of the selected one (counted from 1 here).       *)
(***************************************************************************)
\* xbfac of InstPars, and a list that does not count up by one
AllowedLists == {<<1, 2, 3, 4, 5, 6, 7, 8, 9, 10, 11, 12>>, <<1, 2, 4, 8>>}
Members(allowed) == {allowed[i] : i \in 1 .. Len(allowed)}

\* allowed.index(ival)
IndexOf(allowed, ival) == CHOOSE i \in 1 .. Len(allowed) : allowed[i] = ival

\* ListInt(master, ival, allowed, checker), ival in allowed
ListInt_init(ival, allowed) ==
    [kind |-> "ListInt", value |-> ival, blank |-> FALSE, allowed |-> allowed,
     index |-> IndexOf(allowed, ival), op |-> "init", n |-> 0]

\* ListInt.add(num) and sub(num)
ListInt_add(e, num) ==
    LET i == Max2(1, Min2(Len(e.allowed), e.index + num))
    IN  [Entry_set([e EXCEPT !.index = i], e.allowed[i])
           EXCEPT !.op = "add", !.n = num]

ListInt_sub(e, num) ==
    LET i == Max2(1, Min2(Len(e.allowed), e.index - num))
    IN  [Entry_set([e EXCEPT !.index = i], e.allowed[i])
           EXCEPT !.op = "sub", !.n = num]

\* ListInt.validate(value) and IntegerEntry._callback for typed text: a
\* value in the list is stored, anything else is put back
ListInt_type(e, v) ==
    IF v \in Members(e.allowed)
    THEN [e EXCEPT !.value = v, !.op = "type", !.n = 0]
    ELSE [e EXCEPT !.op = "type", !.n = 0]

(***************************************************************************)
(* PDR900 (hardware/vacuum.py).  Times are in minutes.  The gauge keeps a  *)
(* table of rows [elapsed, pressure], elapsed counted from the start of    *)
(* logging.                                                                *)
(***************************************************************************)
Pressures == {1, 2}
\* the fields named in the message DOWNLOAD = '@{addr}DL{comm};FF'
DownloadFields == {"addr", "comm"}
\* the keys of the dict get_log_data formats it with
LogDataKeys == {"add", "comm"}

\* PDR900(port) after start_logging() at time start
PDR900_init(start) ==
    [logging |-> TRUE, start |-> start, now |-> start, rows |-> <<>>,
     last |-> [op |-> "start_logging", raised |-> "none", value |-> 0]]

\* get_log_data(): message.format(**data) in _send_recv raises KeyError
\* when data lacks a field of the message
get_log_data(p) ==
    IF DownloadFields \subseteq LogDataKeys
    THEN [raised |-> "none", rows |-> p.rows]
    ELSE [raised |-> "KeyError", rows |-> <<>>]

\* get_latest()
get_latest(p) ==
    LET data == get_log_data(p)
    IN  IF data.raised # "none"
        THEN [op |-> "get_latest", raised |-> data.raised, value |-> 0]
        ELSE IF data.rows = <<>>
        THEN [op |-> "get_latest", raised |-> "IndexError", value |-> 0]
        ELSE LET last_row == data.rows[Len(data.rows)]
                 age == p.start + last_row.elapsed - p.now
             IN  IF age > StaleMinutes
                 THEN [op |-> "get_latest", raised |-> "VacuumGaugeError",
                       value |-> 0]
                 ELSE [op |-> "get_latest", raised |-> "none",
                       value |-> last_row.pressure]

(***************************************************************************)
InstPars_init ==
    [app |-> "FullFrame", winOK |-> TRUE, exposeOK |-> TRUE, frozen |-> FALSE,
     oscan |-> 0, oscany |-> 0, led |-> 0, dummy |-> 0, xbin |-> 1, ybin |-> 1,
     remember_oscany |-> 0, has_remember |-> FALSE]

Buttons_init(l) ==
    LET b0 == [B \in Buttons |->
                 IF B \in {"start", "stop", "unfreeze", "powerOff"}
                 THEN ActButton_disable(ActButton_init)
                 ELSE ActButton_init]
    IN  InstSetup_setExpertLevel(Observe_setExpertLevel(b0, l, FALSE), l)

Init ==
    /\ level \in Levels
    /\ btn = Buttons_init(level)
    /\ run_type_set = FALSE
    /\ rtype = ""
    /\ hcam_server_on \in BOOLEAN
    /\ eso_server_online = FALSE
    /\ runActive = FALSE
    /\ count = 0
    /\ pending = 0
    /\ timerId = "none"
    /\ threads = [t \in 1 .. MaxStopThreads |-> "none"]
    /\ stopped_ok = TRUE
    /\ stopping = FALSE
    /\ checks = 0
    /\ pars = InstPars_setExpertLevel(InstPars_init, level)
    /\ vis = InstPars_visible(level)
    /\ ev = "init"
    /\ fps = FocalPlaneSlide_init(TRUE)
    /\ LibIdle
    /\ mon = Monitor_init([lower |-> Num(0), upper |-> Num(2)])
    /\ al = Alarm_init
    /\ sl = Slide_init(FALSE, TRUE)
    /\ ms = Meerstetter_init(1)

(***************************************************************************)
(* ExpertMenu._change: store the level, then setExpertLevel() on every     *)
(* registered component.                                                   *)
(***************************************************************************)
ExpertMenu_change(l) ==
    /\ level' = l
    /\ pars' = InstPars_setExpertLevel(pars, l)
    /\ vis' = InstPars_visible(l)
    /\ btn' = InstSetup_setExpertLevel(
                 Observe_setExpertLevel(btn, l, run_type_set), l)
    /\ ev' = "expert"
    /\ UNCHANGED <<hwVars, run_type_set, rtype, count, pending, timerId, checks,
                   srvVars, stopVars>>

(***************************************************************************)
(* The operator picks a run type: Select sets the value, then              *)
(* RunType.check runs.                                                     *)
(***************************************************************************)
RunTypeSelect(v) ==
    \E q \in Replies(v # "" /\ Asks(UI), runActive) :
        LET r == RunType_check(UI, v, q)
        IN  /\ rtype' = v
            /\ SetUI(r.u)
            /\ ev' = IF r.raised THEN "runtype_raised" ELSE "runtype"
            /\ UNCHANGED <<hwVars, level, pars, vis, srvVars, stopVars>>

(***************************************************************************)
(* The operator edits an instrument parameter whose callback is            *)
(* InstPars.check.                                                         *)
(***************************************************************************)
ParsChecked(p) ==
    \E q \in Replies(InstPars_status(p) /\ Asks(UI), runActive) :
        LET r == InstPars_check(UI, p, q)
        IN  /\ pars' = p
            /\ SetUI(r.u)
            /\ ev' = IF r.raised THEN "pars_raised"
                     ELSE IF r.status THEN "pars_ok" ELSE "pars_bad"
            /\ UNCHANGED <<hwVars, level, rtype, vis, srvVars, stopVars>>

EditApp(a) == a # pars.app /\ ParsChecked([pars EXCEPT !.app = a])

EditWindows(ok) == ParsChecked([pars EXCEPT !.winOK = ok])

EditExpose(ok) == ParsChecked([pars EXCEPT !.exposeOK = ok])

EditBinning(x, y) == ParsChecked([pars EXCEPT !.xbin = x, !.ybin = y])

ToggleOscan == ParsChecked([pars EXCEPT !.oscan = 1 - @])

ToggleOscany == vis.oscany /\ ParsChecked([pars EXCEPT !.oscany = 1 - @])

\* LED and dummy toggles have no callback
ToggleLed ==
    /\ vis.led
    /\ pars' = [pars EXCEPT !.led = 1 - @]
    /\ ev' = "toggle"
    /\ UNCHANGED <<hwVars, level, rtype, vis, uiVars, srvVars, stopVars>>

ToggleDummy ==
    /\ vis.dummy
    /\ pars' = [pars EXCEPT !.dummy = 1 - @]
    /\ ev' = "toggle"
    /\ UNCHANGED <<hwVars, level, rtype, vis, uiVars, srvVars, stopVars>>

(***************************************************************************)
(* Start.act                                                               *)
(***************************************************************************)
BinningAlert(p) ==
    p.oscan = 1 /\ (p.xbin \notin GoodBins \/ p.ybin \notin GoodBins)

\* Start.act once the run has started: flip the buttons, start the timer
Start_act_success_KeepArmed(u, q2) ==
    Timer_start([u EXCEPT !.btn = Enable(Disable(u.btn, "start"), "stop",
                                         u.rts)], q2)

Start_act_success(u, q2) ==
    Timer_start([u EXCEPT !.btn = Enable(Disable(u.btn, "start"), "stop",
                                         FALSE),
                          !.rts = FALSE], q2)

\* Outcome of Start.act for the given answers of the operator and server.
Start_act(u, p, confirm, alertOK, q, post, cmd, q2) ==
    LET chk == InstPars_check(u, p, q)
    IN  IF ~confirm \/ (BinningAlert(p) /\ ~alertOK)
        THEN [ev |-> "start_declined", started |-> FALSE, u |-> u]
        ELSE IF chk.raised
        THEN [ev |-> "start_raised", started |-> FALSE, u |-> chk.u]
        ELSE IF ~chk.status
        THEN [ev |-> "start_pars_bad", started |-> FALSE, u |-> chk.u]
        ELSE IF post # "ok"
        THEN [ev |-> "start_post_failed", started |-> FALSE, u |-> chk.u]
        ELSE IF cmd # "ok"
        THEN [ev |-> "start_cmd_failed", started |-> FALSE, u |-> chk.u]
        ELSE [ev |-> "start_ok", started |-> TRUE,
              u |-> Start_act_success(chk.u, q2)]

StartPress ==
    /\ Clickable("start")
    /\ \E confirm \in BOOLEAN :
       \E alertOK \in IF confirm /\ BinningAlert(pars)
                      THEN BOOLEAN ELSE {TRUE} :
       \E q \in Replies(confirm /\ alertOK /\ InstPars_status(pars)
                        /\ Asks(UI), runActive) :
       \E post \in IF confirm /\ alertOK /\ InstPars_status(pars)
                       /\ q \in {"none", "idle", "active"}
                   THEN Outcomes ELSE {"fail"} :
       \E cmd \in IF post = "ok" THEN execCommand(hcam_server_on)
                  ELSE {"fail"} :
       \E q2 \in Replies(cmd = "ok" /\ Queries(UI), TRUE) :
         LET r == Start_act(UI, pars, confirm, alertOK, q, post, cmd, q2)
         IN  /\ r.started => pending < MaxPending
             /\ SetUI(r.u)
             /\ runActive' = (r.started \/ runActive)
             /\ ev' = r.ev
             /\ UNCHANGED <<hwVars, level, rtype, pars, vis, hcam_server_on,
                            eso_server_online, stopVars>>

(***************************************************************************)
(* A queued Timer.update callback fires.                                   *)
(***************************************************************************)
TimerTick ==
    /\ pending > 0
    /\ \E q \in Replies(Queries(UI), runActive) :
         LET fired == [UI EXCEPT !.pending = @ - 1,
                                 !.id = IF @ = "live" /\ pending = 1
                                        THEN "stale" ELSE @]
             u == Timer_update(fired, q)
         IN  /\ SetUI(u)
             /\ ev' = IF Queries(fired) /\ q = "idle" THEN "tick_idle"
                      ELSE IF Queries(fired) THEN "tick_query" ELSE "tick"
    /\ UNCHANGED <<hwVars, level, rtype, pars, vis, srvVars, stopVars>>

\* the exposures complete on the server
RunEnds ==
    /\ runActive
    /\ runActive' = FALSE
    /\ ev' = "server"
    /\ UNCHANGED <<hwVars, level, rtype, pars, vis, uiVars, hcam_server_on,
                   eso_server_online, stopVars>>


(***************************************************************************)
(* Stop.act starts stop_in_background on a daemon thread and returns.      *)
(***************************************************************************)
FreeThread == CHOOSE t \in 1 .. MaxStopThreads :
                 /\ threads[t] = "none"
                 /\ \A s \in 1 .. MaxStopThreads : threads[s] = "none" => t <= s

Stop_act_Scheduling(u) == [u EXCEPT !.checks = @ + 1]

Stop_act(u) == u

StopPress ==
    /\ Clickable("stop")
    /\ \E t \in 1 .. MaxStopThreads : threads[t] = "none"
    /\ Stop_act(UI).checks <= MaxChecks
    /\ threads' = [threads EXCEPT ![FreeThread] = "begin"]
    /\ SetUI(Stop_act(UI))
    /\ ev' = "stop_press"
    /\ UNCHANGED <<hwVars, level, rtype, pars, vis, srvVars, stopped_ok, stopping>>

\* the statements of stop_in_background, one at a time
ThreadBegin(t) ==
    /\ threads[t] = "begin"
    /\ stopping' = TRUE
    /\ threads' = [threads EXCEPT ![t] = "exec"]
    /\ ev' = "thread"
    /\ UNCHANGED <<hwVars, level, rtype, pars, vis, uiVars, srvVars, stopped_ok>>

ThreadExec(t) ==
    /\ threads[t] = "exec"
    /\ \E o \in execCommand(hcam_server_on) :
         /\ threads' = [threads EXCEPT ![t] =
                          CASE o = "ok" -> "got_ok"
                            [] o = "fail" -> "got_fail"
                            [] OTHER -> "raised"]
         /\ runActive' = (runActive /\ o # "ok")
    /\ ev' = "thread"
    /\ UNCHANGED <<hwVars, level, rtype, pars, vis, uiVars, hcam_server_on,
                   eso_server_online, stopped_ok, stopping>>

ThreadResult(t) ==
    /\ threads[t] \in {"got_ok", "got_fail"}
    /\ stopped_ok' = (threads[t] = "got_ok")
    /\ threads' = [threads EXCEPT ![t] = "fin"]
    /\ ev' = "thread"
    /\ UNCHANGED <<hwVars, level, rtype, pars, vis, uiVars, srvVars, stopping>>

ThreadFinish(t) ==
    /\ threads[t] = "fin"
    /\ stopping' = FALSE
    /\ threads' = [threads EXCEPT ![t] = "none"]
    /\ ev' = "thread"
    /\ UNCHANGED <<hwVars, level, rtype, pars, vis, uiVars, srvVars, stopped_ok>>

ThreadExcept1(t) ==
    /\ threads[t] = "raised"
    /\ stopping' = FALSE
    /\ threads' = [threads EXCEPT ![t] = "exc2"]
    /\ ev' = "thread"
    /\ UNCHANGED <<hwVars, level, rtype, pars, vis, uiVars, srvVars, stopped_ok>>

ThreadExcept2(t) ==
    /\ threads[t] = "exc2"
    /\ stopped_ok' = FALSE
    /\ threads' = [threads EXCEPT ![t] = "none"]
    /\ ev' = "thread"
    /\ UNCHANGED <<hwVars, level, rtype, pars, vis, uiVars, srvVars, stopping>>

(***************************************************************************)
(* Stop.check, called by the owner of the button, or fired from the Tk     *)
(* queue where an earlier check re-scheduled itself.                       *)
(***************************************************************************)
CheckEvent ==
    IF stopped_ok THEN "check_stopped"
    ELSE IF stopping THEN "check_stopping" ELSE "check_failed"

StopCheckCall ==
    LET u == Stop_check(UI, stopped_ok, stopping)
    IN  /\ u.checks <= MaxChecks
        /\ SetUI(u)
        /\ ev' = CheckEvent
        /\ UNCHANGED <<hwVars, level, rtype, pars, vis, srvVars, stopVars>>

StopCheckFire ==
    /\ checks > 0
    /\ SetUI(Stop_check([UI EXCEPT !.checks = @ - 1], stopped_ok, stopping))
    /\ ev' = CheckEvent
    /\ UNCHANGED <<hwVars, level, rtype, pars, vis, srvVars, stopVars>>

(***************************************************************************)
(* Setup panel: PowerOn.act, PowerOff.act, NGCReset.act                    *)
(***************************************************************************)
PowerOnPress ==
    /\ Clickable("powerOn")
    /\ \E o \in execCommand(hcam_server_on) :
         IF o = "ok"
         THEN /\ eso_server_online' = TRUE
              /\ btn' = Enable(Disable(Enable(Disable(btn, "powerOn"),
                               "start", run_type_set), "stop"),
                               "powerOff", run_type_set)
              /\ ev' = "power_on"
         ELSE /\ UNCHANGED <<eso_server_online, btn>>
              /\ ev' = "setup_failed"
    /\ UNCHANGED <<hwVars, level, rtype, pars, vis, run_type_set, count, pending,
                   timerId, checks, hcam_server_on, runActive, stopVars>>

PowerOffPress ==
    /\ Clickable("powerOff")
    /\ \E o \in execCommand(hcam_server_on) :
         IF o = "ok"
         THEN /\ btn' = Enable(Disable(Disable(Disable(btn, "powerOff"),
                               "start"), "stop"), "powerOn", run_type_set)
              /\ runActive' = FALSE
              /\ ev' = "power_off"
         ELSE /\ UNCHANGED <<btn, runActive>>
              /\ ev' = "setup_failed"
    /\ UNCHANGED <<hwVars, level, rtype, pars, vis, run_type_set, count, pending,
                   timerId, checks, hcam_server_on, eso_server_online,
                   stopVars>>

NGCResetPress ==
    /\ Clickable("ngcReset")
    /\ \E o \in execCommand(hcam_server_on) :
         IF o = "ok"
         THEN /\ btn' = Disable(Enable(Disable(Disable(btn, "start"), "stop"),
                               "powerOn", run_type_set), "powerOff")
              /\ ev' = "reset"
         ELSE /\ UNCHANGED btn
              /\ ev' = "setup_failed"
    /\ UNCHANGED <<hwVars, level, rtype, pars, vis, run_type_set, count, pending,
                   timerId, checks, srvVars, stopVars>>

(***************************************************************************)
(* Save.act and Unfreeze.act                                               *)
(***************************************************************************)
SavePress ==
    /\ Clickable("save")
    /\ \E q \in Replies(InstPars_status(pars) /\ Asks(UI), runActive),
          rok \in BOOLEAN, saved \in BOOLEAN :
         LET chk == InstPars_check(UI, pars, q)
             done == ~chk.raised /\ chk.status /\ rok /\ saved
         IN  /\ SetUI(IF done
                      THEN [chk.u EXCEPT !.btn =
                              Disable(Enable(chk.u.btn, "load", chk.u.rts),
                                      "unfreeze")]
                      ELSE chk.u)
             /\ pars' = IF done THEN [pars EXCEPT !.frozen = FALSE] ELSE pars
             /\ ev' = IF done THEN "save" ELSE "save_failed"
    /\ UNCHANGED <<hwVars, level, rtype, vis, srvVars, stopVars>>

UnfreezePress ==
    /\ Clickable("unfreeze")
    /\ pars' = [pars EXCEPT !.frozen = FALSE]
    /\ btn' = Disable(Enable(btn, "load", run_type_set), "unfreeze")
    /\ ev' = "unfreeze"
    /\ UNCHANGED <<hwVars, level, rtype, vis, run_type_set, count, pending, timerId,
                   checks, srvVars, stopVars>>

(***************************************************************************)
(* Specifications                                                          *)
(***************************************************************************)
ThreadStep(t) ==
    \/ ThreadBegin(t) \/ ThreadExec(t) \/ ThreadResult(t)
    \/ ThreadFinish(t) \/ ThreadExcept1(t) \/ ThreadExcept2(t)

\* Start, run type, parameter validity, run timer, Setup buttons
Next ==
    \/ \E l \in Levels : ExpertMenu_change(l)
    \/ \E v \in RunTypes : RunTypeSelect(v)
    \/ \E ok \in BOOLEAN : EditExpose(ok)
    \/ StartPress
    \/ TimerTick
    \/ RunEnds
    \/ StopCheckCall
    \/ PowerOnPress
    \/ PowerOffPress
    \/ NGCResetPress

Spec == Init /\ [][Next]_vars

\* Stop, its worker thread and its checker, next to Start and the run timer
NextStop ==
    \/ StartPress
    \/ TimerTick
    \/ RunEnds
    \/ StopPress
    \/ \E t \in 1 .. MaxStopThreads : ThreadStep(t)
    \/ StopCheckCall
    \/ StopCheckFire

SpecStop == Init /\ [][NextStop]_vars

\* validation of the instrument parameters
NextPars ==
    \/ \E l \in Levels : ExpertMenu_change(l)
    \/ \E v \in RunTypes : RunTypeSelect(v)
    \/ \E a \in Apps : EditApp(a)
    \/ \E ok \in BOOLEAN : EditWindows(ok)
    \/ \E ok \in BOOLEAN : EditExpose(ok)
    \/ StartPress
    \/ RunEnds
    \/ PowerOnPress

SpecPars == Init /\ [][NextPars]_vars

\* the expert menu and the toggles and buttons it governs
NextExpert ==
    \/ \E l \in Levels : ExpertMenu_change(l)
    \/ \E x \in BinChoices, y \in BinChoices : EditBinning(x, y)
    \/ ToggleOscan
    \/ ToggleOscany
    \/ ToggleLed
    \/ ToggleDummy
    \/ StartPress
    \/ SavePress
    \/ UnfreezePress

SpecExpert == Init /\ [][NextExpert]_vars

(***************************************************************************)
(* Properties                                                              *)
(***************************************************************************)
(* The hardware monitors and drivers run beside the run control; their     *)
(* specifications start with the run control idle.                         *)
(***************************************************************************)
CtlIdle ==
    /\ level = 0
    /\ btn = Buttons_init(0)
    /\ run_type_set = FALSE
    /\ rtype = ""
    /\ hcam_server_on = FALSE
    /\ eso_server_online = FALSE
    /\ runActive = FALSE
    /\ count = 0
    /\ pending = 0
    /\ timerId = "none"
    /\ threads = [t \in 1 .. MaxStopThreads |-> "none"]
    /\ stopped_ok = TRUE
    /\ stopping = FALSE
    /\ checks = 0
    /\ pars = InstPars_setExpertLevel(InstPars_init, 0)
    /\ vis = InstPars_visible(0)

(***************************************************************************)
(* HardwareDisplayWidget: the polling cycle.  start_update and             *)
(* process_update are Tk after() callbacks; update runs on its own thread. *)
(***************************************************************************)
MonStartUpdate ==
    /\ mon.timer = "start_update"
    /\ mon.after > 0
    /\ mon' = Monitor_start_update([mon EXCEPT !.after = @ - 1])
    /\ ev' = "mon_start"
    /\ UNCHANGED exceptMon

\* the update_function returns a reading
MonUpdateReturns ==
    /\ mon.nthreads > 0
    /\ \E val \in MonReadings :
         /\ mon' = Monitor_update(mon, FALSE, val)
         /\ ev' = IF isfinite(val) THEN "mon_returned" ELSE "mon_unusable"
    /\ UNCHANGED exceptMon

\* the update_function raises
MonUpdateRaises ==
    /\ mon.nthreads > 0
    /\ mon' = Monitor_update(mon, TRUE, NaN)
    /\ ev' = "mon_raised"
    /\ UNCHANGED exceptMon

MonProcessUpdate ==
    /\ mon.timer = "process_update"
    /\ mon.after > 0
    /\ mon' = Monitor_process_update([mon EXCEPT !.after = @ - 1])
    /\ ev' = IF mon.queue = <<>> THEN "mon_wait" ELSE "mon_processed"
    /\ UNCHANGED exceptMon

InitMonitor ==
    /\ CtlIdle
    /\ ev = "init"
    /\ fps = FocalPlaneSlide_init(TRUE)
    /\ LibIdle
    /\ mon \in {Monitor_init(lim) : lim \in MonLimits}
    /\ al = Alarm_init
    /\ sl = Slide_init(FALSE, TRUE)
    /\ ms = Meerstetter_init(1)

NextMonitor ==
    \/ MonStartUpdate
    \/ MonUpdateReturns
    \/ MonUpdateRaises
    \/ MonProcessUpdate

SpecMonitor == InitMonitor /\ [][NextMonitor]_vars

\* the Tk main loop runs every due callback and every started thread gets
\* to run to its end
SpecMonitorLive ==
    /\ SpecMonitor
    /\ WF_vars(MonStartUpdate)
    /\ WF_vars(MonProcessUpdate)
    /\ WF_vars(MonUpdateReturns \/ MonUpdateRaises)

(***************************************************************************)
(* AlarmDialog: raising, dismissing, the sound process and the queued      *)
(* kill_after callbacks.                                                   *)
(***************************************************************************)
AlarmRaise(d, play_sound) ==
    /\ al.dlg[d].state = "none"
    /\ \A e \in Dialogs : e < d => al.dlg[e].state # "none"
    /\ al' = AlarmDialog_init(al, d, play_sound)
    /\ ev' = "alarm_raised"
    /\ UNCHANGED exceptAl

AlarmDismiss(d, path) ==
    /\ al.dlg[d].state = "open"
    /\ \E quick \in IF Alive(al.dlg[d]) THEN BOOLEAN ELSE {FALSE} :
         al' = AlarmDialog_dismiss(al, d, quick)
    /\ ev' = "alarm_" \o path
    /\ UNCHANGED exceptAl

\* the sound process ends: the sound is over, or SIGTERM took effect
SoundProcessExits(d) ==
    /\ Alive(al.dlg[d])
    /\ al' = [al EXCEPT !.dlg[d].proc = "exited"]
    /\ ev' = "proc_exit"
    /\ UNCHANGED exceptAl

\* a queued kill_after comes due
TkAfterFires(d) ==
    /\ al.dlg[d].after
    /\ IF al.dlg[d].state = "destroyed"
       THEN /\ al' = [al EXCEPT !.dlg[d].after = FALSE]
            /\ ev' = "after_lost"
       ELSE /\ al' = [al EXCEPT !.dlg[d] = kill_after(@, @.countdown)]
            /\ ev' = "kill_after"
    /\ UNCHANGED exceptAl

InitAlarm ==
    /\ CtlIdle
    /\ ev = "init"
    /\ fps = FocalPlaneSlide_init(TRUE)
    /\ LibIdle
    /\ mon = Monitor_init([lower |-> Num(0), upper |-> Num(2)])
    /\ al = Alarm_init
    /\ sl = Slide_init(FALSE, TRUE)
    /\ ms = Meerstetter_init(1)

NextAlarm ==
    \/ \E d \in Dialogs, play_sound \in BOOLEAN : AlarmRaise(d, play_sound)
    \/ \E d \in Dialogs, path \in DismissPaths : AlarmDismiss(d, path)
    \/ \E d \in Dialogs : SoundProcessExits(d)
    \/ \E d \in Dialogs : TkAfterFires(d)

SpecAlarm == InitAlarm /\ [][NextAlarm]_vars

(***************************************************************************)
(* Slide: the statements of a call, one at a time, for each caller.        *)
(***************************************************************************)
\* a thread calls return_position / home / reset
SlideCall(t, op) ==
    /\ sl.th[t].pc = "idle"
    /\ sl' = [sl EXCEPT !.th[t] = [Caller_idle EXCEPT !.pc = "check",
                                      !.op = op, !.pkt = FirstPacket(op)]]
    /\ ev' = "slide_call"
    /\ UNCHANGED exceptSl

\* _sendRecv: "if self.sock is None"
SlideCheckSock(t) ==
    /\ sl.th[t].pc = "check"
    /\ sl' = [sl EXCEPT !.th[t].pc = IF sl.sock = 0 THEN "connect" ELSE "lock"]
    /\ ev' = "slide_check"
    /\ UNCHANGED exceptSl

\* _sendRecv: self.connect(), refused or not
SlideConnect(t) ==
    /\ sl.th[t].pc = "connect"
    /\ \E refused \in IF sl.nsock < MaxSockets THEN BOOLEAN ELSE {TRUE} :
         IF refused
         THEN /\ sl' = [sl EXCEPT !.th[t] = Caller_fail(@)]
              /\ ev' = "slide_refused"
         ELSE /\ sl' = [sl EXCEPT !.sock = sl.nsock + 1,
                                  !.nsock = sl.nsock + 1,
                                  !.th[t].pc = "lock"]
              /\ ev' = "slide_connected"
    /\ UNCHANGED exceptSl

\* _sendRecv: "with self._lock"
SlideAcquire(t) ==
    /\ sl.th[t].pc = "lock"
    /\ Lock_free(sl.lock)
    /\ sl' = [sl EXCEPT !.lock = t, !.th[t].pc = "send"]
    /\ ev' = "slide_locked"
    /\ UNCHANGED exceptSl

\* _sendRecv: self.sock.send(byteArr); the device acts on the packet
SlideSend(t) ==
    /\ sl.th[t].pc = "send"
    /\ \E fails \in BOOLEAN :
         IF fails
         THEN /\ sl' = [sl EXCEPT !.lock = 0, !.th[t] = Caller_fail(@)]
              /\ ev' = "slide_send_failed"
         ELSE /\ sl' = [sl EXCEPT
                   !.th[t].pc = "recv",
                   !.th[t].sentOn = sl.sock,
                   !.th[t].posSent = @ \/ sl.th[t].pkt = "POSITION",
                   !.devHomed = CASE sl.th[t].pkt = "HOME" -> TRUE
                                  [] sl.th[t].pkt = "RESET" -> FALSE
                                  [] OTHER -> @]
              /\ ev' = "slide_sent"
    /\ UNCHANGED exceptSl

\* _sendRecv: self.sock.recv(6) on whatever self.sock is now, then the
\* lock is released; a reply can only arrive on the socket used to send
SlideRecv(t) ==
    /\ sl.th[t].pc = "recv"
    /\ \E r \in IF sl.sock = sl.th[t].sentOn
               THEN {"reply", "error_reply", "timeout"} ELSE {"timeout"} :
         IF r = "timeout"
         THEN /\ sl' = [sl EXCEPT !.lock = 0, !.th[t] = Caller_fail(@)]
              /\ ev' = "slide_timeout"
         ELSE /\ sl' = [sl EXCEPT
                   !.lock = 0,
                   !.th[t].pc = "eval",
                   !.th[t].b1 = IF r = "error_reply" THEN ERROR ELSE 0,
                   !.th[t].setting =
                       IF sl.th[t].pkt = "RETURN_SETTING" /\ r = "reply"
                       THEN SettingsByte(sl.devHomed) ELSE @]
              /\ ev' = "slide_received"
    /\ UNCHANGED exceptSl

\* the caller of _sendRecv looks at the reply: _hasBeenHomed and
\* _getPosition, home, reset
SlideEval(t) ==
    /\ sl.th[t].pc = "eval"
    /\ LET c == sl.th[t]
       IN  CASE c.pkt = "RETURN_SETTING" /\ c.b1 = ERROR ->
                  /\ sl' = [sl EXCEPT !.th[t] = Caller_fail(@)]
                  /\ ev' = "slide_setting_error"
             [] c.pkt = "RETURN_SETTING" /\ c.b1 # ERROR
                                         /\ hasBeenHomed(c.setting) ->
                  /\ sl' = [sl EXCEPT !.th[t].pc = "check",
                                      !.th[t].pkt = "POSITION"]
                  /\ ev' = "slide_homed"
             [] c.pkt = "RETURN_SETTING" /\ c.b1 # ERROR
                                         /\ ~hasBeenHomed(c.setting) ->
                  /\ sl' = [sl EXCEPT !.th[t] = Caller_fail(@)]
                  /\ ev' = "slide_not_homed"
             [] c.pkt = "HOME" /\ c.b1 = ERROR ->
                  /\ sl' = [sl EXCEPT !.th[t] = Caller_fail(@)]
                  /\ ev' = "slide_home_error"
             [] OTHER ->
                  /\ sl' = [sl EXCEPT !.th[t] = Caller_return(@)]
                  /\ ev' = "slide_done"
    /\ UNCHANGED exceptSl

InitSlide ==
    /\ CtlIdle
    /\ ev = "init"
    /\ fps = FocalPlaneSlide_init(TRUE)
    /\ LibIdle
    /\ mon = Monitor_init([lower |-> Num(0), upper |-> Num(2)])
    /\ al = Alarm_init
    /\ sl \in {Slide_init(c, h) : c \in BOOLEAN, h \in BOOLEAN}
    /\ ms = Meerstetter_init(1)

NextSlide ==
    \/ \E t \in SlideCallers, op \in SlideOps : SlideCall(t, op)
    \/ \E t \in SlideCallers : SlideCheckSock(t)
    \/ \E t \in SlideCallers : SlideConnect(t)
    \/ \E t \in SlideCallers : SlideAcquire(t)
    \/ \E t \in SlideCallers : SlideSend(t)
    \/ \E t \in SlideCallers : SlideRecv(t)
    \/ \E t \in SlideCallers : SlideEval(t)

SpecSlide == InitSlide /\ [][NextSlide]_vars

(***************************************************************************)
(* MeerstetterTEC1090: a call assembles a frame, holds one conversation    *)
(* and checks the response; the statements of each caller interleave.      *)
(***************************************************************************)
Assembling == {t \in MsCallers : ms.th[t].pc \in {"asm_read", "asm_load", "asm_store"}}

\* get_param / reset_tec / set_ccd_temp is called for device address addr
MsCall(t, addr) ==
    /\ ms.th[t].pc = "idle"
    /\ Len(ms.frames) + Cardinality(Assembling) < MaxFrames
    /\ ms' = [ms EXCEPT !.th[t] = [MsCaller_idle EXCEPT !.pc = "asm_read",
                                     !.frame = Frame(addr, 0, 0)]]
    /\ ev' = "ms_call"
    /\ UNCHANGED exceptMs

\* _assemble_frame: seq = format(self.seq_no, '0>4X')
MsAsmRead(t) ==
    /\ ms.th[t].pc = "asm_read"
    /\ ms' = [ms EXCEPT !.th[t].frame = Frame(@.addr, ms.seq_no, 0),
                        !.th[t].pc = "asm_load"]
    /\ ev' = "ms_asm"
    /\ UNCHANGED exceptMs

\* _assemble_frame: self.seq_no += 1, the load
MsAsmLoad(t) ==
    /\ ms.th[t].pc = "asm_load"
    /\ ms' = [ms EXCEPT !.th[t].tmp = ms.seq_no, !.th[t].pc = "asm_store"]
    /\ ev' = "ms_asm"
    /\ UNCHANGED exceptMs

\* _assemble_frame: self.seq_no += 1, the store; the frame is returned
MsAsmStore(t) ==
    /\ ms.th[t].pc = "asm_store"
    /\ ms' = [ms EXCEPT !.seq_no = ms.th[t].tmp + 1,
                        !.frames = Append(@, ms.th[t].frame.seq),
                        !.th[t].tmp = 0,
                        !.th[t].pc = "lock"]
    /\ ev' = "ms_frame"
    /\ UNCHANGED exceptMs

\* _send_frame: "with self._lock"
MsAcquire(t) ==
    /\ ms.th[t].pc = "lock"
    /\ Lock_free(ms.lock)
    /\ ms' = [ms EXCEPT !.lock = t, !.th[t].pc = "connect"]
    /\ ev' = "ms_locked"
    /\ UNCHANGED exceptMs

\* socketcontext: s.connect
MsConnect(t) ==
    /\ ms.th[t].pc = "connect"
    /\ \E ok \in BOOLEAN :
         IF ok
         THEN /\ ms' = [ms EXCEPT !.open = @ \cup {t}, !.th[t].pc = "welcome"]
              /\ ev' = "ms_connected"
         ELSE /\ ms' = [ms EXCEPT !.th[t].pc = "unlock",
                                  !.th[t].result = "socket_error"]
              /\ ev' = "ms_refused"
    /\ UNCHANGED exceptMs

\* _send_frame: welcome = s.recv(1024) and the test for 'Welcome'
MsWelcome(t) ==
    /\ ms.th[t].pc = "welcome"
    /\ \E w \in {"Welcome", "other", "timeout"} :
         IF w = "timeout"
         THEN /\ ms' = [ms EXCEPT !.th[t].pc = "close",
                                  !.th[t].result = "socket_error"]
              /\ ev' = "ms_timeout"
         ELSE IF HasWelcome(w)
         THEN /\ ms' = [ms EXCEPT !.th[t].pc = "send", !.th[t].preamble = w]
              /\ ev' = "ms_welcome"
         ELSE /\ ms' = [ms EXCEPT !.th[t].pc = "close", !.th[t].preamble = w,
                                  !.th[t].result = "no_welcome"]
              /\ ev' = "ms_no_welcome"
    /\ UNCHANGED exceptMs

\* _send_frame: s.send(frame_msg.encode())
MsSend(t) ==
    /\ ms.th[t].pc = "send"
    /\ ms' = [ms EXCEPT !.th[t].pc = "recv"]
    /\ ev' = "ms_sent"
    /\ UNCHANGED exceptMs

\* _send_frame: ret_msg = s.recv(1024)
MsRecv(t) ==
    /\ ms.th[t].pc = "recv"
    /\ \/ \E r \in WireResponses(ms.th[t].frame) :
            /\ ms' = [ms EXCEPT !.th[t].pc = "close", !.th[t].ret = r]
            /\ ev' = "ms_received"
       \/ /\ ms' = [ms EXCEPT !.th[t].pc = "close",
                              !.th[t].result = "socket_error"]
          /\ ev' = "ms_timeout"
    /\ UNCHANGED exceptMs

\* leaving the with block: socketcontext closes the socket ...
MsClose(t) ==
    /\ ms.th[t].pc = "close"
    /\ ms' = [ms EXCEPT !.open = @ \ {t}, !.th[t].pc = "unlock",
                        !.th[t].preamble = ""]
    /\ ev' = "ms_closed"
    /\ UNCHANGED exceptMs

MsUnlock_OnSuccessOnly(t) ==
    /\ ms.th[t].pc = "unlock"
    /\ ms' = [ms EXCEPT !.lock = IF ms.th[t].result = "none" THEN 0 ELSE @,
                        !.th[t] = IF @.result = "none"
                                  THEN [@ EXCEPT !.pc = "check"]
                                  ELSE MsCaller_end(@, @.result)]
    /\ ev' = "ms_unlocked"
    /\ UNCHANGED exceptMs

\* ... and then the lock is released; an exception raised inside the
\* block ends the call
MsUnlock(t) ==
    /\ ms.th[t].pc = "unlock"
    /\ ms' = [ms EXCEPT !.lock = 0,
                        !.th[t] = IF @.result = "none"
                                  THEN [@ EXCEPT !.pc = "check"]
                                  ELSE MsCaller_end(@, @.result)]
    /\ ev' = "ms_unlocked"
    /\ UNCHANGED exceptMs

\* _send_frame: self._check_response(frame_msg, ret_msg)
MsCheck(t) ==
    /\ ms.th[t].pc = "check"
    /\ ms' = [ms EXCEPT !.th[t].pc = "idle",
                        !.th[t].result = check_response(ms.th[t].frame,
                                                         ms.th[t].ret)]
    /\ ev' = "ms_checked"
    /\ UNCHANGED exceptMs

InitMeerstetter ==
    /\ CtlIdle
    /\ ev = "init"
    /\ fps = FocalPlaneSlide_init(TRUE)
    /\ LibIdle
    /\ mon = Monitor_init([lower |-> Num(0), upper |-> Num(2)])
    /\ al = Alarm_init
    /\ sl = Slide_init(FALSE, TRUE)
    /\ ms \in {Meerstetter_init(seq) : seq \in SeqStart}

\* _check_response on its own: any frame against any response
InitMsCheck ==
    /\ CtlIdle
    /\ ev = "init"
    /\ fps = FocalPlaneSlide_init(TRUE)
    /\ LibIdle
    /\ mon = Monitor_init([lower |-> Num(0), upper |-> Num(2)])
    /\ al = Alarm_init
    /\ sl = Slide_init(FALSE, TRUE)
    /\ \E addr \in 1 .. 2, seq \in 1 .. MaxFrames, payload \in 0 .. 1 :
         \E ret \in Responses(Frame(addr, seq, payload)) :
           ms = [Meerstetter_init(seq + 1) EXCEPT
                   !.th[1] = [MsCaller_idle EXCEPT
                                !.pc = "check",
                                !.frame = Frame(addr, seq, payload),
                                !.ret = ret]]

NextMsCheck == \E t \in MsCallers : MsCheck(t)

SpecMsCheck == InitMsCheck /\ [][NextMsCheck]_vars

NextMeerstetter ==
    \/ \E t \in MsCallers : MsCall(t, 1)
    \/ \E t \in MsCallers : MsAsmRead(t)
    \/ \E t \in MsCallers : MsAsmLoad(t)
    \/ \E t \in MsCallers : MsAsmStore(t)
    \/ \E t \in MsCallers : MsAcquire(t)
    \/ \E t \in MsCallers : MsConnect(t)
    \/ \E t \in MsCallers : MsWelcome(t)
    \/ \E t \in MsCallers : MsSend(t)
    \/ \E t \in MsCallers : MsRecv(t)
    \/ \E t \in MsCallers : MsClose(t)
    \/ \E t \in MsCallers : MsUnlock(t)
    \/ \E t \in MsCallers : MsCheck(t)

SpecMeerstetter == InitMeerstetter /\ [][NextMeerstetter]_vars

(***************************************************************************)
(* FocalPlaneSlide: the settings menu, the buttons, the background thread  *)
(* and the polling callback.                                               *)
(***************************************************************************)
\* Boolean._update: the menu entry flips g.cpars['focal_plane_slide_on']
FpsToggle ==
    /\ fps' = [fps EXCEPT !.on = ~@]
    /\ ev' = "fps_toggle"
    /\ UNCHANGED exceptFps

\* a button of the widget is pressed: action(comm) or action('goto', arg)
FpsAction(comm, arg) ==
    /\ Len(FocalPlaneSlide_action(fps, comm, arg).log) <= MaxLog
    /\ fps' = FocalPlaneSlide_action(fps, comm, arg)
    /\ ev' = "fps_action"
    /\ UNCHANGED exceptFps

\* the background thread finishes the command
FpsFutureReady ==
    /\ fps.running_future # "None"
    /\ ~fps.ready
    /\ fps' = [fps EXCEPT !.ready = TRUE]
    /\ ev' = "fps_ready"
    /\ UNCHANGED exceptFps

\* the callback queued by "self.after(100, self.checkSlideCommand)" runs
FpsCheck ==
    /\ fps.after > 0
    /\ \E raised \in BOOLEAN :
         /\ Len(checkSlideCommand(fps, raised).log) <= MaxLog
         /\ fps' = checkSlideCommand(fps, raised)
    /\ ev' = "fps_check"
    /\ UNCHANGED exceptFps

InitFps ==
    /\ CtlIdle
    /\ ev = "init"
    /\ mon = Monitor_init([lower |-> Num(0), upper |-> Num(2)])
    /\ al = Alarm_init
    /\ sl = Slide_init(FALSE, TRUE)
    /\ ms = Meerstetter_init(1)
    /\ fps \in {FocalPlaneSlide_init(on) : on \in BOOLEAN}
    /\ LibIdle

NextFps ==
    \/ FpsToggle
    \/ \E comm \in FpsComms, arg \in FpsArgs : FpsAction(comm, arg)
    \/ FpsFutureReady
    \/ FpsCheck

SpecFps == InitFps /\ [][NextFps]_vars

(***************************************************************************)
(* ReadServer on its own: a response body arrives and is parsed.           *)
(***************************************************************************)
\* rs = ReadServer(resp, status_msg)
CallReadServer ==
    /\ call.fn = "ReadServer"
    /\ ~call.done
    /\ call' = [call EXCEPT !.done = TRUE,
                            !.rs = ReadServer_init(call.body, call.status_msg)]
    /\ ev' = "read_server"
    /\ UNCHANGED exceptCall

InitReadServer ==
    /\ CtlIdle
    /\ ev = "init"
    /\ mon = Monitor_init([lower |-> Num(0), upper |-> Num(2)])
    /\ al = Alarm_init
    /\ sl = Slide_init(FALSE, TRUE)
    /\ ms = Meerstetter_init(1)
    /\ fps = FocalPlaneSlide_init(TRUE)
    /\ pipe = NoPipe
    /\ ent = NoEntry
    /\ pdr = NoPDR
    /\ esp = NoESP
    /\ \E body \in Bodies, status_msg \in BOOLEAN :
         call = [fn |-> "ReadServer", body |-> body,
                 status_msg |-> status_msg, done |-> FALSE,
                 rs |-> ReadServer_blank]

NextReadServer == CallReadServer

SpecReadServer == InitReadServer /\ [][NextReadServer]_vars

(***************************************************************************)
(* One call of execCommand or isRunActive.                                 *)
(***************************************************************************)
CallExecCommand ==
    /\ call.fn = "execCommand"
    /\ ~call.done
    /\ call' = [call EXCEPT !.done = TRUE,
                            !.out = execCommand_call(call.on, call.command,
                                                     call.net)]
    /\ ev' = "exec_command"
    /\ UNCHANGED exceptCall

CallIsRunActive ==
    /\ call.fn = "isRunActive"
    /\ ~call.done
    /\ call' = [call EXCEPT !.done = TRUE,
                            !.out = isRunActive_call(call.on, call.net)]
    /\ ev' = "is_run_active"
    /\ UNCHANGED exceptCall

InitServerCall ==
    /\ CtlIdle
    /\ ev = "init"
    /\ mon = Monitor_init([lower |-> Num(0), upper |-> Num(2)])
    /\ al = Alarm_init
    /\ sl = Slide_init(FALSE, TRUE)
    /\ ms = Meerstetter_init(1)
    /\ fps = FocalPlaneSlide_init(TRUE)
    /\ pipe = NoPipe
    /\ ent = NoEntry
    /\ pdr = NoPDR
    /\ esp = NoESP
    /\ \E on \in BOOLEAN :
         \/ \E command \in Commands, net \in NetReplies(CommandBodies) :
              call = [fn |-> "execCommand", on |-> on, command |-> command,
                      net |-> net, done |-> FALSE, out |-> NoOutcome]
         \/ \E net \in NetReplies(SummaryBodies) :
              call = [fn |-> "isRunActive", on |-> on, command |-> "summary",
                      net |-> net, done |-> FALSE, out |-> NoOutcome]

NextServerCall ==
    \/ CallExecCommand
    \/ CallIsRunActive

SpecServerCall == InitServerCall /\ [][NextServerCall]_vars

(***************************************************************************)
(* One call of upload_telemetry.                                           *)
(***************************************************************************)
CallUploadTelemetry ==
    /\ call.fn = "upload_telemetry"
    /\ ~call.done
    /\ call' = [call EXCEPT !.done = TRUE,
                            !.out = upload_telemetry(call.device, call.keys,
                                                     call.post)]
    /\ ev' = "upload_telemetry"
    /\ UNCHANGED exceptCall

InitTelemetry ==
    /\ CtlIdle
    /\ ev = "init"
    /\ mon = Monitor_init([lower |-> Num(0), upper |-> Num(2)])
    /\ al = Alarm_init
    /\ sl = Slide_init(FALSE, TRUE)
    /\ ms = Meerstetter_init(1)
    /\ fps = FocalPlaneSlide_init(TRUE)
    /\ pipe = NoPipe
    /\ ent = NoEntry
    /\ pdr = NoPDR
    /\ esp = NoESP
    /\ \E device \in DeviceNames, post \in PostResults :
         \E keys \in {k \in SUBSET Metrics : Cardinality(k) <= 2} :
           call = [fn |-> "upload_telemetry", device |-> device,
                   keys |-> keys, post |-> post, done |-> FALSE,
                   out |-> NoOutcome]

NextTelemetry == CallUploadTelemetry

SpecTelemetry == InitTelemetry /\ [][NextTelemetry]_vars

(***************************************************************************)
(* FastFITSPipe: the reader seeks and reads while the writer appends.      *)
(***************************************************************************)
\* the camera writes another block of the file
PipeWrite ==
    /\ pipe.size < MaxBytes
    /\ pipe' = [pipe EXCEPT !.size = @ + 1]
    /\ ev' = "pipe_write"
    /\ UNCHANGED exceptPipe

PipeSeekFrame(frame_number) ==
    /\ pipe' = seek_frame(pipe, frame_number)
    /\ ev' = "pipe_seek"
    /\ UNCHANGED exceptPipe

PipeReadFrame ==
    /\ pipe' = read_frame_bytes(pipe)
    /\ ev' = "pipe_read"
    /\ UNCHANGED exceptPipe

InitPipe ==
    /\ CtlIdle
    /\ ev = "init"
    /\ mon = Monitor_init([lower |-> Num(0), upper |-> Num(2)])
    /\ al = Alarm_init
    /\ sl = Slide_init(FALSE, TRUE)
    /\ ms = Meerstetter_init(1)
    /\ fps = FocalPlaneSlide_init(TRUE)
    /\ call = NoCall
    /\ ent = NoEntry
    /\ pdr = NoPDR
    /\ esp = NoESP
    /\ \E framesize \in FrameSizes :
         pipe = FastFITSPipe_init(HeaderSize, framesize)

NextPipe ==
    \/ PipeWrite
    \/ \E frame_number \in FrameNumbers : PipeSeekFrame(frame_number)
    \/ PipeReadFrame

SpecPipe == InitPipe /\ [][NextPipe]_vars

(***************************************************************************)
(* One RangedMint: keys and mouse buttons add and subtract, the user       *)
(* types, a setup is loaded, the binning factor changes.                   *)
(***************************************************************************)
MintAdd(num) ==
    /\ ent' = RangedMint_add(ent, num)
    /\ ev' = "mint_add"
    /\ UNCHANGED exceptEnt

MintSub(num) ==
    /\ ent' = RangedMint_sub(ent, num)
    /\ ev' = "mint_sub"
    /\ UNCHANGED exceptEnt

\* the user types a value within [imin, imax] or clears the field
\* (RangedInt.validate lets both through), or loadJSON calls set()
MintType(v, clear) ==
    /\ v <= ent.imax
    /\ ent' = [ent EXCEPT !.value = IF clear THEN 0 ELSE v, !.blank = clear,
                          !.op = "type", !.n = 0]
    /\ ev' = "mint_type"
    /\ UNCHANGED exceptEnt

\* the binning entry changes value
MintFactor(chunk) ==
    /\ ent' = [ent EXCEPT !.chunk = chunk, !.op = "factor", !.n = 0]
    /\ ev' = "mint_factor"
    /\ UNCHANGED exceptEnt

InitMint ==
    /\ CtlIdle
    /\ ev = "init"
    /\ mon = Monitor_init([lower |-> Num(0), upper |-> Num(2)])
    /\ al = Alarm_init
    /\ sl = Slide_init(FALSE, TRUE)
    /\ ms = Meerstetter_init(1)
    /\ fps = FocalPlaneSlide_init(TRUE)
    /\ call = NoCall
    /\ pipe = NoPipe
    /\ pdr = NoPDR
    /\ esp = NoESP
    /\ \E r \in Ranges, chunk \in Factors :
         ent = RangedMint_init(5, r[1], r[2], chunk)

NextMint ==
    \/ \E num \in Steps : MintAdd(num)
    \/ \E num \in Steps : MintSub(num)
    \/ \E v \in Typed, clear \in BOOLEAN : MintType(v, clear)
    \/ \E chunk \in Factors : MintFactor(chunk)

SpecMint == InitMint /\ [][NextMint]_vars

(***************************************************************************)
(* One ListInt: Up/Down and the mouse buttons, Next/Prior, typing, and     *)
(* loadJSON setting the stored binning.                                    *)
(***************************************************************************)
ListAdd ==
    /\ ent' = ListInt_add(ent, 1)
    /\ ev' = "list_add"
    /\ UNCHANGED exceptEnt

ListSub ==
    /\ ent' = ListInt_sub(ent, 1)
    /\ ev' = "list_sub"
    /\ UNCHANGED exceptEnt

\* <Next>: set(allowed[0]); <Prior>: set(allowed[-1]); loadJSON: set(v)
ListSet(v) ==
    /\ v \in Members(ent.allowed)
    /\ ent' = [Entry_set(ent, v) EXCEPT !.op = "set", !.n = 0]
    /\ ev' = "list_set"
    /\ UNCHANGED exceptEnt

ListType(v) ==
    /\ ent' = ListInt_type(ent, v)
    /\ ev' = "list_type"
    /\ UNCHANGED exceptEnt

InitListInt ==
    /\ CtlIdle
    /\ ev = "init"
    /\ mon = Monitor_init([lower |-> Num(0), upper |-> Num(2)])
    /\ al = Alarm_init
    /\ sl = Slide_init(FALSE, TRUE)
    /\ ms = Meerstetter_init(1)
    /\ fps = FocalPlaneSlide_init(TRUE)
    /\ call = NoCall
    /\ pipe = NoPipe
    /\ pdr = NoPDR
    /\ esp = NoESP
    /\ \E allowed \in AllowedLists : ent = ListInt_init(allowed[1], allowed)

NextListInt ==
    \/ ListAdd
    \/ ListSub
    \/ \E v \in 1 .. 12 : ListSet(v)
    \/ \E v \in 0 .. 13 : ListType(v)

SpecListInt == InitListInt /\ [][NextListInt]_vars

(***************************************************************************)
(* PDR900: time passes, the gauge logs a reading (or has stopped           *)
(* logging), the host asks for the latest one.                             *)
(***************************************************************************)
PdrTick ==
    /\ pdr.now < 5 * MaxTicks
    /\ pdr' = [pdr EXCEPT !.now = @ + 5,
                          !.last = [op |-> "tick", raised |-> "none",
                                    value |-> 0]]
    /\ ev' = "pdr_tick"
    /\ UNCHANGED exceptPdr

\* the gauge appends a row; the table keeps the newest two
PdrLog(pressure) ==
    /\ IF pdr.rows = <<>> THEN TRUE
       ELSE pdr.rows[Len(pdr.rows)].elapsed < pdr.now - pdr.start
    /\ LET row == [elapsed |-> pdr.now - pdr.start, pressure |-> pressure]
       IN  pdr' = [pdr EXCEPT
                     !.rows = IF Len(@) < 2 THEN Append(@, row)
                              ELSE <<@[2], row>>,
                     !.last = [op |-> "log", raised |-> "none", value |-> 0]]
    /\ ev' = "pdr_log"
    /\ UNCHANGED exceptPdr

PdrGetLatest ==
    /\ pdr' = [pdr EXCEPT !.last = get_latest(pdr)]
    /\ ev' = "pdr_get_latest"
    /\ UNCHANGED exceptPdr

InitPdr ==
    /\ CtlIdle
    /\ ev = "init"
    /\ mon = Monitor_init([lower |-> Num(0), upper |-> Num(2)])
    /\ al = Alarm_init
    /\ sl = Slide_init(FALSE, TRUE)
    /\ ms = Meerstetter_init(1)
    /\ fps = FocalPlaneSlide_init(TRUE)
    /\ call = NoCall
    /\ pipe = NoPipe
    /\ ent = NoEntry
    /\ pdr = PDR900_init(0)
    /\ esp = NoESP

NextPdr ==
    \/ PdrTick
    \/ \E pressure \in Pressures : PdrLog(pressure)
    \/ PdrGetLatest

SpecPdr == InitPdr /\ [][NextPdr]_vars

(***************************************************************************)
(* Slide moves (hardware/slide.py): move_absolute and move_relative on a   *)
(* connected slide that answers every packet.  A call is followed to its   *)
(* end; its result is the exception it raises and the packets it sent.     *)
(***************************************************************************)
MIN_MS == 0
MAX_MS == 1664000
MIN_PX10 == 27602         \* MIN_PX = 2760.2, in tenths of a pixel
MAX_PX10 == -11553        \* MAX_PX = -1155.3, in tenths of a pixel

MoveKinds == {"absolute", "relative"}
\* amount and units of a request: microsteps, millimetres, an unknown
\* unit, and pixels (UNBLOCK_POS, BLOCK_POS and one beyond either end)
MoveRequests ==
    ({-1000, -1, 0, 1, 1000, 1664000, 1664001} \X {"MS", "ms", "MM", "furlong"})
      \cup ({1100, -100, 3000, -1200} \X {"PX"})
DevicePositions == {0, 1000, 1664000}

Upper(units) == IF units = "ms" THEN "MS" ELSE units

\* int(a * x / d + 0.5) for a >= d > 0: int() truncates towards zero.  The
\* product a * x is not formed; a = q * d + r is multiplied out instead.
IntHalfUp(a, x, d) ==
    LET q == a \div d
        r == a % d
    IN  IF x >= 0
        THEN q * x + (2 * r * x + d) \div (2 * d)
        ELSE 0 - (q * (0 - x) + (2 * r * (0 - x) - d) \div (2 * d))

Moved(raised, sent) == [raised |-> raised, sent |-> sent]
Converted(raised, nstep) == [raised |-> raised, nstep |-> nstep]

\* _convert_to_microstep(amount, units); the message of the first raise
\* applies % with one argument to a string that has no conversion, and the
\* branch for 'MM' tests for 'MS' again, so that nstep is never bound
convert_to_microstep(amount, units) ==
    IF Upper(units) \notin {"MS", "PX", "MM"}
    THEN Converted("TypeError", 0)
    ELSE IF Upper(units) = "MS" THEN Converted("none", amount)
    ELSE IF Upper(units) = "PX"
    THEN Converted("none",
           MIN_MS + IntHalfUp(MAX_MS - MIN_MS, MIN_PX10 - 10 * amount,
                              MIN_PX10 - MAX_PX10))
    ELSE Converted("UnboundLocalError", 0)

\* _getPosition(), dev being the device: its reply to RETURN_SETTING and
\* its position
getPosition(dev, sent) ==
    LET s1 == Append(sent, "RETURN_SETTING")
    IN  IF dev.b1 = ERROR THEN Moved("SlideError", s1)
        ELSE IF ~hasBeenHomed(dev.setting) THEN Moved("SlideError", s1)
        ELSE Moved("none", Append(s1, "POSITION"))

OutOfRange_Never(nstep) == FALSE

\* "nstep < MIN_MS or nstep > MAX_MS"
OutOfRange(nstep) == nstep < MIN_MS \/ nstep > MAX_MS

\* _encodeCommandData: struct.pack('<L', int) takes 0 .. 2^32 - 1; every
\* step count met here is below 2^32
Encodes(nstep) == 0 <= nstep

\* _move_absolute(nstep, timeout); the message of its raise applies % with
\* three arguments to a string with two conversions
Slide_move_absolute(dev, nstep, timeout) ==
    IF OutOfRange(nstep) THEN Moved("TypeError", <<>>)
    ELSE LET t == IF timeout THEN Moved("none", <<>>)
                  ELSE getPosition(dev, <<>>)
         IN  IF t.raised # "none" THEN t
             ELSE IF ~Encodes(nstep) THEN Moved("struct.error", t.sent)
             ELSE Moved("none", Append(t.sent, "MOVE_ABSOLUTE"))

\* _move_relative(nstep, timeout)
Slide_move_relative(dev, nstep, timeout) ==
    LET p == getPosition(dev, <<>>)
    IN  IF p.raised # "none" THEN p
        ELSE IF OutOfRange(dev.pos + nstep) THEN Moved("TypeError", p.sent)
        ELSE IF ~Encodes(nstep) THEN Moved("struct.error", p.sent)
        ELSE Moved("none", Append(p.sent, "MOVE_RELATIVE"))

\* move_absolute(amount, units, timeout) and move_relative(...)
Slide_move(kind, dev, amount, units, timeout) ==
    LET c == convert_to_microstep(amount, units)
    IN  IF c.raised # "none" THEN Moved(c.raised, <<>>)
        ELSE IF kind = "absolute"
        THEN Slide_move_absolute(dev, c.nstep, timeout)
        ELSE Slide_move_relative(dev, c.nstep, timeout)

(***************************************************************************)
(* NewportESP301 (hardware/newport.py): commands are sent one by one or,   *)
(* inside execute_bulk_commands, collected in a list.  Looking up a name   *)
(* the object does not have raises AttributeError.                         *)
(***************************************************************************)
EspCommands == {"PA", "PR", "ST", "TP?"}
\* the attributes __init__ sets and the methods the class defines
EspAttributes ==
    {"lock", "dev", "_execute_immediately", "_command_list", "axis"}
EspMethods ==
    {"_execute", "_cmd", "reset", "abort_all_axes", "stop_all_axes",
     "define_program", "execute_bulk_commands", "run_program"}
EspHas(name) == name \in EspAttributes \cup EspMethods

EspResult(op, raised) == [op |-> op, raised |-> raised]

\* NewportESP301(port); wire is what was written to the serial port,
\* ctx tells whether a with block of execute_bulk_commands is open
NewportESP301_init ==
    [built |-> TRUE, immediate |-> TRUE, command_list |-> <<>>,
     wire |-> <<>>, ctx |-> FALSE, last |-> EspResult("init", "none")]

\* _execute(cmd, errcheck); error = the controller reports an error to TB?
Newport_execute(e, cmd, errcheck, error) ==
    IF ~EspHas("ser")
    THEN [e EXCEPT !.last = EspResult("_execute", "AttributeError")]
    ELSE IF errcheck /\ error
    THEN [e EXCEPT !.wire = Append(@, cmd),
                   !.last = EspResult("_execute", "NewportError")]
    ELSE [e EXCEPT !.wire = Append(@, cmd),
                   !.last = EspResult("_execute", "none")]

\* _cmd(cmd, errcheck=...)
Newport_cmd(e, cmd, errcheck, error) ==
    IF e.immediate
    THEN Newport_execute(e, cmd, errcheck, error)
    ELSE [e EXCEPT !.command_list = Append(@, cmd),
                   !.last = EspResult("_cmd", "none")]

\* execute_bulk_commands up to its yield
bulk_enter(e) ==
    [e EXCEPT !.immediate = FALSE, !.ctx = TRUE,
              !.last = EspResult("enter", "none")]

\* execute_bulk_commands after its yield, the body having ended normally
bulk_leave(e, errcheck, error) ==
    IF ~EspHas("execute")
    THEN [e EXCEPT !.ctx = FALSE,
                   !.last = EspResult("leave", "AttributeError")]
    ELSE LET x == Newport_execute(e, "batch", errcheck, error)
         IN  IF x.last.raised # "none"
             THEN [x EXCEPT !.ctx = FALSE,
                            !.last = EspResult("leave", x.last.raised)]
             ELSE [x EXCEPT !.ctx = FALSE, !.command_list = <<>>,
                            !.immediate = TRUE,
                            !.last = EspResult("leave", "none")]

\* an exception of the body is thrown into the generator at its yield,
\* where nothing catches it
bulk_raise(e) ==
    [e EXCEPT !.ctx = FALSE, !.last = EspResult("leave", "BodyError")]

(***************************************************************************)
(* The setup document of InstPars.dumpJSON (utils/hcam.py) and its         *)
(* translation by get_obsmode (utils/obsmodes.py).  A panel is the record  *)
(* of the widget values dumpJSON reads; a document is a function from key  *)
(* to value, and reading a key the document lacks raises KeyError.         *)
(***************************************************************************)
ObsApps == {"FullFrame", "Windows", "Drift"}
Multipliers == {<<1, 1, 1, 1, 1>>, <<1, 2, 3, 4, 5>>}
\* a window pair of the drift frame: xsl, xsr, ys, nx, ny
Pairs ==
    [xsl : {1, 101}, xsr : {1025}, ys : {1, 201}, nx : {100}, ny : {100, 52}]
\* a quad of the quad frame: xsll, xsul, xslr, xsur, ys, nx, ny
Quads ==
    [xsll : {1, 101}, xsul : {1}, xslr : {1025}, xsur : {1025, 1101},
     ys : {1}, nx : {100}, ny : {100}]
QuadLists == {<<q>> : q \in Quads} \cup
             {<<q, [q EXCEPT !.ys = 301]>> : q \in Quads}
Panels ==
    [app : ObsApps, xbin : {1, 2}, ybin : {1}, clear : BOOLEAN,
     led : {FALSE}, oscan : BOOLEAN, dummy : {0}, readout : {"Slow"},
     numexp : {0}, dwell : {1}, exptime : {2}, multipliers : Multipliers,
     pair : Pairs, quads : QuadLists]

\* "for iw, (...) in enumerate(self.wframe)" of the drift frame: the keys
\* of pair iw+1
PairBlock(n, w) ==
    IF n = 1
    THEN [x1start_left |-> w.xsl, x1start_right |-> w.xsr, y1start |-> w.ys,
          y1size |-> w.ny, x1size |-> w.nx]
    ELSE [x2start_left |-> w.xsl, x2start_right |-> w.xsr, y2start |-> w.ys,
          y2size |-> w.ny, x2size |-> w.nx]

\* the same loop over the quad frame: the keys of quad iw+1
QuadBlock(n, q) ==
    IF n = 1
    THEN [x1start_upperleft |-> q.xsul, x1start_lowerleft |-> q.xsll,
          x1start_upperright |-> q.xsur, x1start_lowerright |-> q.xslr,
          y1start |-> q.ys, x1size |-> q.nx, y1size |-> q.ny]
    ELSE [x2start_upperleft |-> q.xsul, x2start_lowerleft |-> q.xsll,
          x2start_upperright |-> q.xsur, x2start_lowerright |-> q.xslr,
          y2start |-> q.ys, x2size |-> q.nx, y2size |-> q.ny]

\* InstPars.dumpJSON()
dumpJSON(p) ==
    LET data == [numexp |-> p.numexp, app |-> p.app, led_flsh |-> p.led,
                 dummy_out |-> p.dummy, readout |-> p.readout,
                 dwell |-> p.dwell, exptime |-> p.exptime,
                 oscan |-> p.oscan, oscany |-> FALSE, xbin |-> p.xbin,
                 ybin |-> p.ybin, multipliers |-> p.multipliers,
                 clear |-> p.clear]
    IN  IF p.app = "FullFrame" THEN data
        ELSE IF p.app = "Drift" THEN PairBlock(1, p.pair) @@ data
        ELSE IF Len(p.quads) = 1 THEN QuadBlock(1, p.quads[1]) @@ data
        ELSE QuadBlock(2, p.quads[2]) @@ QuadBlock(1, p.quads[1]) @@ data

TF(b) == IF b THEN "T" ELSE "F"

\* the keys ObsMode.__init__ reads with app_data[...]
ObsMode_keys ==
    {"multipliers", "xbin", "ybin", "clear", "led_flsh", "oscan", "exptime"}

\* ObsMode.__init__: the detector parameters every mode has
ObsMode_init(app_data) ==
    LET m == app_data["multipliers"]
        dummy == IF "dummy_out" \in DOMAIN app_data
                 THEN app_data["dummy_out"] ELSE 0
    IN  ("DET.BINX1" :> app_data["xbin"]) @@
        ("DET.BINY1" :> app_data["ybin"]) @@
        ("DET.CLRCCD" :> TF(app_data["clear"])) @@
        ("DET.NCLRS" :> 1) @@
        ("DET.DUMMY" :> dummy) @@
        ("DET.EXPLED" :> TF(app_data["led_flsh"])) @@
        ("DET.GPS" :> "T") @@
        ("DET.INCPRSCX" :> TF(app_data["oscan"])) @@
        ("DET.NSKIPS1" :> m[1] - 1) @@
        ("DET.NSKIPS2" :> m[2] - 1) @@
        ("DET.NSKIPS3" :> m[3] - 1) @@
        ("DET.NSKIPS4" :> m[4] - 1) @@
        ("DET.NSKIPS5" :> m[5] - 1) @@
        ("DET.SEQ.DIT" :> app_data["exptime"])

\* the keys Windows.__init__ reads for window 1, and for window 2 when the
\* document has 'x2size'
Windows_keys(app_data) ==
    {"x1size", "y1size", "x1start_lowerleft", "x1start_lowerright",
     "x1start_upperright", "x1start_upperleft", "y1start", "readout"} \cup
    IF "x2size" \in DOMAIN app_data
    THEN {"x2size", "y2size", "x2start_lowerleft", "x2start_lowerright",
          "x2start_upperright", "x2start_upperleft", "y2start"}
    ELSE {}

\* Windows.__init__
Windows_init(app_data) ==
    LET win1 ==
          ("DET.WIN1.NX" :> app_data["x1size"]) @@
          ("DET.WIN1.NY" :> app_data["y1size"]) @@
          ("DET.WIN1.XSE" :> app_data["x1start_lowerleft"] - 1) @@
          ("DET.WIN1.XSF" :> 2049 - app_data["x1start_lowerright"]
                                   - app_data["x1size"]) @@
          ("DET.WIN1.XSG" :> 2049 - app_data["x1start_upperright"]
                                   - app_data["x1size"]) @@
          ("DET.WIN1.XSH" :> app_data["x1start_upperleft"] - 1) @@
          ("DET.WIN1.YS" :> app_data["y1start"] - 1)
        win2 ==
          ("DET.WIN2.NX" :> app_data["x2size"]) @@
          ("DET.WIN2.NY" :> app_data["y2size"]) @@
          ("DET.WIN2.XSE" :> app_data["x2start_lowerleft"] - 1) @@
          ("DET.WIN2.XSF" :> 2049 - app_data["x2start_lowerright"]
                                   - app_data["x2size"]) @@
          ("DET.WIN2.XSG" :> 2049 - app_data["x2start_upperright"]
                                   - app_data["x2size"]) @@
          ("DET.WIN2.XSH" :> app_data["x2start_upperleft"] - 1) @@
          ("DET.WIN2.YS" :> app_data["y2start"] - 1)
    IN  IF "x2size" \in DOMAIN app_data
        THEN win2 @@ win1 @@ ObsMode_init(app_data)
        ELSE win1 @@ ObsMode_init(app_data)

\* the keys Drift.__init__ reads
Drift_keys ==
    {"x1size", "y1size", "y1start", "x1start_left", "x1start_lowerright",
     "x1start_upperright"}

\* Drift.num_stacked: int((nrows/ny + 1) / 2) with nrows = 520
num_stacked(ny) == (520 + ny) \div (2 * ny)

\* Drift.pipe_shift
pipe_shift(ny) == 520 - (2 * num_stacked(ny) - 1) * ny

\* Drift.__init__
Drift_init(app_data) ==
    ("DET.DRWIN.NX" :> app_data["x1size"]) @@
    ("DET.DRWIN.NY" :> app_data["y1size"]) @@
    ("DET.DRWIN.YS" :> app_data["y1start"] - 1) @@
    ("DET.DRWIN.XSE" :> app_data["x1start_left"] - 1) @@
    ("DET.DRWIN.XSF" :> 2049 - app_data["x1start_lowerright"]
                             - app_data["x1size"]) @@
    ("DET.DRWIN.XSH" :> app_data["x1start_left"] - 1) @@
    ("DET.DRWIN.XSG" :> 2049 - app_data["x1start_upperright"]
                             - app_data["x1size"]) @@
    ("DET.DRWIN.NW" :> num_stacked(app_data["y1size"])) @@
    ("DET.DRWIN.PSH" :> pipe_shift(app_data["y1size"])) @@
    ObsMode_init(app_data)

NoDetpars == [raised |-> "none", missing |-> {}, detpars |-> <<>>]

\* get_obsmode(setup_data) on a document that has 'app': the mode's
\* detector parameters, or the KeyError of the first read that fails
get_obsmode(app_data) ==
    LET mode == app_data["app"]
        keys == IF mode = "FullFrame" THEN ObsMode_keys \cup {"readout"}
                ELSE IF mode = "Windows"
                THEN ObsMode_keys \cup Windows_keys(app_data)
                ELSE ObsMode_keys \cup Drift_keys
    IN  IF ~(keys \subseteq DOMAIN app_data)
        THEN [raised |-> "KeyError", missing |-> keys \ DOMAIN app_data,
              detpars |-> <<>>]
        ELSE [NoDetpars EXCEPT
                !.detpars = IF mode = "FullFrame" THEN ObsMode_init(app_data)
                            ELSE IF mode = "Windows"
                            THEN Windows_init(app_data)
                            ELSE Drift_init(app_data)]

(***************************************************************************)
(* A panel is saved with dumpJSON and the document is handed to            *)
(* get_obsmode.                                                            *)
(***************************************************************************)
CallDumpJSON ==
    /\ call.fn = "obsmode"
    /\ call.stage = "panel"
    /\ call' = [call EXCEPT !.stage = "dumped", !.doc = dumpJSON(call.panel)]
    /\ ev' = "dump_json"
    /\ UNCHANGED exceptCall

CallGetObsmode ==
    /\ call.fn = "obsmode"
    /\ call.stage = "dumped"
    /\ call' = [call EXCEPT !.stage = "translated",
                            !.out = get_obsmode(call.doc)]
    /\ ev' = "get_obsmode"
    /\ UNCHANGED exceptCall

InitObsMode ==
    /\ CtlIdle
    /\ ev = "init"
    /\ mon = Monitor_init([lower |-> Num(0), upper |-> Num(2)])
    /\ al = Alarm_init
    /\ sl = Slide_init(FALSE, TRUE)
    /\ ms = Meerstetter_init(1)
    /\ fps = FocalPlaneSlide_init(TRUE)
    /\ pipe = NoPipe
    /\ ent = NoEntry
    /\ pdr = NoPDR
    /\ esp = NoESP
    /\ \E panel \in Panels :
         call = [fn |-> "obsmode", panel |-> panel, stage |-> "panel",
                 doc |-> <<>>, out |-> NoDetpars]

NextObsMode ==
    \/ CallDumpJSON
    \/ CallGetObsmode

SpecObsMode == InitObsMode /\ [][NextObsMode]_vars

(***************************************************************************)
(* One move_absolute or move_relative call on a Slide.                     *)
(***************************************************************************)
CallSlideMove ==
    /\ call.fn = "move"
    /\ ~call.done
    /\ call' = [call EXCEPT !.done = TRUE,
                            !.out = Slide_move(call.kind, call.dev,
                                               call.amount, call.units,
                                               call.timeout)]
    /\ ev' = "slide_move"
    /\ UNCHANGED exceptCall

InitSlideMove ==
    /\ CtlIdle
    /\ ev = "init"
    /\ mon = Monitor_init([lower |-> Num(0), upper |-> Num(2)])
    /\ al = Alarm_init
    /\ sl = Slide_init(FALSE, TRUE)
    /\ ms = Meerstetter_init(1)
    /\ fps = FocalPlaneSlide_init(TRUE)
    /\ pipe = NoPipe
    /\ ent = NoEntry
    /\ pdr = NoPDR
    /\ esp = NoESP
    /\ \E kind \in MoveKinds, req \in MoveRequests,
          timeout \in BOOLEAN, b1 \in {0, ERROR}, homed \in BOOLEAN,
          pos \in DevicePositions :
         call = [fn |-> "move", kind |-> kind, amount |-> req[1],
                 units |-> req[2], timeout |-> timeout,
                 dev |-> [b1 |-> b1, setting |-> SettingsByte(homed),
                          pos |-> pos],
                 done |-> FALSE, out |-> Moved("none", <<>>)]

NextSlideMove == CallSlideMove

SpecSlideMove == InitSlideMove /\ [][NextSlideMove]_vars

(***************************************************************************)
(* One NewportESP301: commands are issued outside and inside with blocks   *)
(* of execute_bulk_commands.                                               *)
(***************************************************************************)
EspCmd(cmd, errcheck, error) ==
    /\ Len(esp.command_list) < MaxCommands
    /\ Len(esp.wire) < MaxCommands
    /\ esp' = Newport_cmd(esp, cmd, errcheck, error)
    /\ ev' = "esp_cmd"
    /\ UNCHANGED exceptEsp

\* "with controller.execute_bulk_commands():" is entered
EspEnterBulk ==
    /\ ~esp.ctx
    /\ esp' = bulk_enter(esp)
    /\ ev' = "esp_enter"
    /\ UNCHANGED exceptEsp

\* the body of the with block ends normally
EspLeaveBulk(errcheck, error) ==
    /\ esp.ctx
    /\ esp' = bulk_leave(esp, errcheck, error)
    /\ ev' = "esp_leave"
    /\ UNCHANGED exceptEsp

\* the body of the with block raises
EspBodyRaises ==
    /\ esp.ctx
    /\ esp' = bulk_raise(esp)
    /\ ev' = "esp_body_raised"
    /\ UNCHANGED exceptEsp

InitEsp ==
    /\ CtlIdle
    /\ ev = "init"
    /\ mon = Monitor_init([lower |-> Num(0), upper |-> Num(2)])
    /\ al = Alarm_init
    /\ sl = Slide_init(FALSE, TRUE)
    /\ ms = Meerstetter_init(1)
    /\ fps = FocalPlaneSlide_init(TRUE)
    /\ call = NoCall
    /\ pipe = NoPipe
    /\ ent = NoEntry
    /\ pdr = NoPDR
    /\ esp = NewportESP301_init

NextEsp ==
    \/ \E cmd \in EspCommands, errcheck \in BOOLEAN, error \in BOOLEAN :
         EspCmd(cmd, errcheck, error)
    \/ EspEnterBulk
    \/ \E errcheck \in BOOLEAN, error \in BOOLEAN : EspLeaveBulk(errcheck, error)
    \/ EspBodyRaises

SpecEsp == InitEsp /\ [][NextEsp]_vars

(***************************************************************************)
timerVars == <<count, pending, timerId>>
StartFailures ==
    {"start_declined", "start_pars_bad", "start_post_failed",
     "start_cmd_failed"}

\* C1: when Start.act succeeds (confirmed, parameters valid, POST and
\* 'start' command both succeed), on return Start is disabled (activity flag
\* cleared, greyed out unless the expert override holds), run_type_set is
\* false, Stop is enabled and a run-timer tick is queued.
C1_StartSuccess ==
    ev = "start_ok" =>
        /\ Disabled("start")
        /\ ~run_type_set
        /\ btn["stop"].active /\ Clickable("stop")
        /\ pending > 0 /\ timerId = "live"

C1_Witness ==
    /\ ev = "start_ok"
    /\ level = 0
    /\ ~Clickable("start")
    /\ Clickable("stop")
    /\ pending = 1

\* C2 as stated: a failure at any stage of Start.act leaves every button,
\* run_type_set and the run timer exactly as they were before the press.
C2_Original ==
    [][ev' \in StartFailures =>
          UNCHANGED <<btn, run_type_set, timerVars>>]_vars

\* C2 amended: a declined confirmation, a failed POST or a failed 'start'
\* command leave buttons, run_type_set and timer unchanged; a failed
\* parameter check has disabled Start (InstPars.check) and changed nothing
\* else.
C2_Amended ==
    [][/\ ev' \in {"start_declined", "start_post_failed", "start_cmd_failed"}
          => UNCHANGED <<btn, run_type_set, timerVars>>
       /\ ev' = "start_pars_bad"
          => /\ btn' = Disable(btn, "start")
             /\ UNCHANGED <<run_type_set, timerVars>>]_vars

C2_Witness ==
    /\ ev = "start_pars_bad"
    /\ level < 2
    /\ run_type_set
    /\ ~Clickable("start")

\* C3 as stated: once a run has been started the Start control is not
\* clickable while that run is active, whatever happens in between.
C3_Original == runActive => ~Clickable("start")

\* C3 amended: a successful press at expert level 0 or 1 leaves Start not
\* clickable, and while the run stays active a run-type selection, a
\* parameter check or a timer tick never makes it clickable again; only
\* switching to expert level 2, a successful Power-on press or a Stop.check
\* that reads stopped_ok = True do.
C3_Amended ==
    [][/\ (ev' = "start_ok" /\ level < 2) => btn'["start"].state = "disabled"
       /\ (/\ runActive /\ runActive'
           /\ btn["start"].state = "disabled"
           /\ btn'["start"].state = "normal")
          => ev' \in {"expert", "power_on", "check_stopped"}]_vars

C3_Witness ==
    /\ ev = "runtype"
    /\ rtype # ""
    /\ runActive
    /\ hcam_server_on /\ eso_server_online
    /\ level < 2
    /\ ~Clickable("start")

\* C4 as stated: in non-expert mode Start is enabled only if a run type has
\* been selected since the last successful start, the server is on and
\* online, and no run is active.
C4_Original ==
    (level < 2 /\ Clickable("start")) =>
        /\ run_type_set
        /\ hcam_server_on /\ eso_server_online
        /\ ~runActive

\* C4 amended: in non-expert mode Start is enabled only if a non-blank run
\* type has been selected since the last successful start; server on,
\* server online and no active run are required when RunType.check or
\* InstPars.check does the enabling, not when the run timer, Power-on or
\* Stop.check does.
C4_Amended ==
    /\ []((level < 2 /\ Clickable("start")) => (run_type_set /\ rtype # ""))
    /\ [][(/\ btn["start"].state = "disabled"
           /\ btn'["start"].state = "normal"
           /\ ev' \in {"runtype", "pars_ok"})
          => (hcam_server_on /\ eso_server_online /\ ~runActive)]_vars

C4_Witness ==
    /\ ev = "tick_idle"
    /\ level < 2
    /\ Clickable("start")
    /\ run_type_set
    /\ ~eso_server_online

\* C5: whenever InstPars.check finds a failing check (invalid geometry in
\* the active geometry panel, or an invalid exposure delay) it returns False
\* and Start is disabled; it enables Start only when every check passes and
\* the server is on and online with no run active.
ParsEvents == {"pars_ok", "pars_bad", "pars_raised"}
FailingCheck(p) == (p.app \in {"Windows", "Drift"} /\ ~p.winOK) \/ ~p.exposeOK

C5_CheckGatesStart ==
    [][ev' \in ParsEvents =>
         /\ FailingCheck(pars') <=> ev' = "pars_bad"
         /\ ev' = "pars_bad"
            => (/\ ~btn'["start"].active
                /\ ~btn'["start"].expert => btn'["start"].state = "disabled")
         /\ (btn'["start"] # btn["start"] /\ btn'["start"].active)
            => /\ ~FailingCheck(pars')
               /\ hcam_server_on /\ eso_server_online /\ ~runActive]_vars

C5_Witness ==
    /\ ev = "pars_bad"
    /\ pars.app = "Windows" /\ ~pars.winOK /\ pars.exposeOK
    /\ level < 2
    /\ run_type_set
    /\ eso_server_online
    /\ ~Clickable("start")

(***************************************************************************)
(* C6.  The run timer.                                                     *)
(***************************************************************************)
TickEvents == {"tick", "tick_query", "tick_idle"}

C7_CheckerRuns == stopping => checks > 0

(***************************************************************************)
(* C8.  ActButton.                                                         *)
(***************************************************************************)
\* C8: a button is interactively enabled exactly when its expert flag is
\* set or its activity flag is true.
C8_VisibleState ==
    \A B \in Buttons : Clickable(B) <=> (btn[B].expert \/ btn[B].active)

\* setNonExpert has just reconciled the buttons after a successful start:
\* Stop shows enabled and Start shows disabled, as their flags say
C8_Witness ==
    /\ ev = "expert"
    /\ level = 0
    /\ runActive
    /\ ~btn["start"].expert /\ ~btn["start"].active /\ ~Clickable("start")
    /\ ~btn["stop"].expert /\ btn["stop"].active /\ Clickable("stop")

(***************************************************************************)
(* C9.  Expert level 2.                                                    *)
(***************************************************************************)
\* C9: while the expert level is 2, Load, Save, Unfreeze, Start and Stop
\* are all clickable.
C9_ExpertClickable == level = 2 => \A B \in ObserveButtons : Clickable(B)

\* at level 2 the timer has found the run over: neither Start nor Stop is
\* active, both are clickable
C9_Witness ==
    /\ level = 2
    /\ ev = "tick_idle"
    /\ ~btn["start"].active
    /\ ~btn["stop"].active
    /\ Clickable("start") /\ Clickable("stop")

(***************************************************************************)
(* C10.  The expert-level cascade from 0 to 2.                             *)
(***************************************************************************)
Cascade(b, l, rts) == InstSetup_setExpertLevel(Observe_setExpertLevel(b, l, rts), l)

\* C10 as stated: going from level 0 to level 2 runs setExpertLevel on
\* every component, shows the hidden toggles and changes no stored value.
C10_Original ==
    [][(ev' = "expert" /\ level = 0 /\ level' = 2) =>
          /\ btn' = Cascade(btn, 2, run_type_set)
          /\ vis' = [led |-> TRUE, dummy |-> TRUE, oscany |-> TRUE]
          /\ pars' = pars]_vars

\* C10 amended: going from level 0 to level 2 runs setExpertLevel on every
\* component, shows the hidden toggles and changes no stored value except
\* the y-overscan flag, which is set to the value it had when level 0 was
\* last entered.
C10_Amended ==
    [][(ev' = "expert" /\ level = 0 /\ level' = 2) =>
          /\ btn' = Cascade(btn, 2, run_type_set)
          /\ vis' = [led |-> TRUE, dummy |-> TRUE, oscany |-> TRUE]
          /\ pars' = [pars EXCEPT !.oscany = pars.remember_oscany]]_vars

\* level 2 reached by the menu with the y-overscan flag restored to 1
C10_Witness ==
    /\ ev = "expert"
    /\ level = 2
    /\ vis.led /\ vis.dummy /\ vis.oscany
    /\ pars.oscany = 1
    /\ pars.remember_oscany = 1

(***************************************************************************)
(* C11.  Which thread talks to the server.                                 *)
(***************************************************************************)
\* steps of handlers the Tk main loop runs (button commands, widget
\* callbacks, after() callbacks) during which the handler itself made an
\* HTTP request: Start.act (postJSON, execCommand), Timer.update
\* (isRunActive), PowerOn.act (execCommand)
UiThreadRequests ==
    {"start_post_failed", "start_cmd_failed", "start_ok",
     "tick_query", "tick_idle", "power_on"}

\* C11 as stated: no step of a UI-thread handler makes a request to the
\* server.
C11_NoRequestOnUiThread == ev \notin UiThreadRequests

(***************************************************************************)
(* C12.  The ok mark of a monitor result.                                  *)
(***************************************************************************)
InLimits(val, lim) == FloatLt(val, lim.upper) /\ FloatLt(lim.lower, val)

\* C12 as stated: a processed result is marked ok exactly when it carries
\* no error and its value lies strictly inside the limits or is the NaN
\* "monitoring disabled" sentinel; the label is flagged exactly when the
\* result is not ok.
C12_OkMarking ==
    ev = "mon_processed" =>
      /\ mon.ok <=> /\ ~mon.shown.errmsg
                    /\ InLimits(mon.shown.val, mon.lim) \/ mon.shown.val = NaN
      /\ (mon.bg = "warn") <=> ~mon.ok

(***************************************************************************)
(* C13.  A failed poll does not stop the polling.                          *)
(***************************************************************************)
FailedPolls == {"mon_raised", "mon_unusable"}

\* C13: after a poll whose update function raised or returned a
\* non-finite value, the result is taken from the queue and shown by the
\* UI thread with the next poll scheduled, and the next poll starts.
C13_PollingContinues ==
    /\ (ev \in FailedPolls) ~>
          (ev = "mon_processed" /\ ~isfinite(mon.shown.val)
             /\ mon.timer = "start_update")
    /\ (ev \in FailedPolls) ~> (ev = "mon_start")

\* a new poll has started with the result of a raising poll on display
C13_Witness ==
    /\ ev = "mon_start"
    /\ mon.shown.errmsg
    /\ mon.shown.val = NaN
    /\ mon.nthreads = 1

(***************************************************************************)
(* C14.  The sound process of a dismissed alarm dialog.                    *)
(***************************************************************************)
\* C14 as stated: once a dialog that started a sound process has been
\* dismissed, the process has ended (exited or killed), or SIGTERM has been
\* sent and the kill_after countdown is still under way.
C14_SoundProcessEnds ==
    \A d \in Dialogs :
      (al.dlg[d].state = "destroyed" /\ al.dlg[d].proc # "none") =>
         \/ al.dlg[d].proc \in {"exited", "killed"}
         \/ al.dlg[d].proc = "termed" /\ al.dlg[d].after

(***************************************************************************)
(* C15.  Slide transactions do not interleave.                             *)
(***************************************************************************)
\* caller t sends or receives on the slide socket in this step
OnTheWire(t) ==
    /\ sl.th[t].pc \in {"send", "recv"}
    /\ sl'.th[t].pc # sl.th[t].pc

\* C15: while one caller is between the send of its packet and the receipt
\* of the reply, no other caller sends or receives; at most one caller is
\* inside the locked section.
C15_NoInterleaving ==
    /\ [](Cardinality({t \in SlideCallers :
                         sl.th[t].pc \in {"send", "recv"}}) <= 1)
    /\ [][\A t, u \in SlideCallers :
            (t # u /\ sl.th[t].pc = "recv") => ~OnTheWire(u)]_vars

\* one caller awaits its reply while another, which found the socket
\* closed and reconnected, waits for the lock
C15_Witness ==
    \E t, u \in SlideCallers :
      /\ t # u
      /\ sl.th[t].pc = "recv"
      /\ sl.th[u].pc = "lock"
      /\ sl.nsock = 2
      /\ sl.sock # sl.th[t].sentOn

(***************************************************************************)
(* C19.  A position query on a slide that has not been homed.              *)
(***************************************************************************)
\* C19: a position query that reads a settings byte with bit 7 clear ends
\* in an error, and a query sends a POSITION packet only after reading a
\* settings byte with bit 7 set.
C19_NotHomedNoPosition ==
    /\ [](\A t \in SlideCallers :
            (sl.th[t].op = "position" /\ sl.th[t].posSent)
               => sl.th[t].setting >= HomedBit)
    /\ [][\A t \in SlideCallers :
            (/\ sl.th[t].pc = "eval" /\ sl'.th[t].pc # "eval"
             /\ sl.th[t].pkt = "RETURN_SETTING"
             /\ sl.th[t].b1 # ERROR
             /\ sl.th[t].setting < HomedBit)
            => /\ sl'.th[t].pc = "idle"
               /\ sl'.th[t].result = "error"
               /\ ~sl'.th[t].posSent]_vars

\* a position query has just failed on a slide that is not homed
C19_Witness ==
    /\ ev = "slide_not_homed"
    /\ ~sl.devHomed
    /\ \E t \in SlideCallers :
         /\ sl.th[t].op = "position"
         /\ sl.th[t].result = "error"
         /\ sl.th[t].setting = POTENTIOM_OFF
         /\ ~sl.th[t].posSent


\* ---------------------------------------------------------------------
\* C16: for one MeerstetterTEC1090 handle at most one conversation is in
\* progress at any time: the caller holds the lock from before it
\* connects until after it has closed, at most one connection is open,
\* and a frame is sent and its response read only on a connection whose
\* preamble held 'Welcome'.
InConversation ==
    {t \in MsCallers :
       ms.th[t].pc \in {"connect", "welcome", "send", "recv", "close", "unlock"}}

C16_OneConversation ==
    /\ Cardinality(InConversation) <= 1
    /\ Cardinality(ms.open) <= 1
    /\ \A t \in MsCallers :
         /\ t \in InConversation => ms.lock = t
         /\ t \in ms.open <=> ms.th[t].pc \in {"welcome", "send", "recv", "close"}
         /\ ms.th[t].pc \in {"send", "recv"} => ms.th[t].preamble = "Welcome"

C16_Witness ==
    \E t, u \in MsCallers :
      /\ ms.th[t].pc = "recv"
      /\ ms.th[t].preamble = "Welcome"
      /\ ms.open = {t}
      /\ ms.th[u].pc = "lock"

\* ---------------------------------------------------------------------
\* C17: a response is accepted only if it starts with '!', its
\* address/sequence field equals the request's and its trailing CRC
\* equals the CRC computed over the rest of the response; any other
\* response is rejected with IOError.
Checked(t) ==
    /\ ev = "ms_checked"
    /\ ms.th[t].pc = "idle"
    /\ ms.th[t].result \in {"accepted", "IOError", "IndexError"}

FromDevice(frame, ret) ==
    /\ ret.ctl = "!"
    /\ ret.addr = frame.addr
    /\ ret.seq = frame.seq

OwnCrc(ret) == crc_calc(ret.ctl, ret.addr, ret.seq, ret.payload)

C17_Original ==
    \A t \in MsCallers :
      Checked(t) =>
        LET c == ms.th[t]
            passes == FromDevice(c.frame, c.ret) /\ c.ret.crc = OwnCrc(c.ret)
        IN  /\ c.result = "accepted" <=> passes
            /\ ~passes => c.result = "IOError"

\* C17 as the code has it: a response that starts with '!' and repeats
\* the request's address/sequence field is accepted when its trailing
\* CRC equals the CRC computed over the rest of the response or the CRC
\* of the request; an empty response raises IndexError; every other
\* response raises IOError.
C17_Amended ==
    \A t \in MsCallers :
      Checked(t) =>
        LET c == ms.th[t]
            passes == /\ FromDevice(c.frame, c.ret)
                      /\ c.ret.crc \in {OwnCrc(c.ret), c.frame.crc}
        IN  /\ c.result = "accepted" <=> passes
            /\ c.result = "IndexError" <=> c.ret = EmptyResponse
            /\ c.result = "IOError" <=> (~passes /\ c.ret # EmptyResponse)

C17_Witness ==
    \E t \in MsCallers :
      /\ Checked(t)
      /\ ms.th[t].result = "accepted"
      /\ ms.th[t].ret.crc = ms.th[t].frame.crc
      /\ ms.th[t].ret.crc # OwnCrc(ms.th[t].ret)

\* ---------------------------------------------------------------------
\* C18: each frame assembled by one handle carries a sequence number one
\* greater than that of the frame assembled before it, the first being
\* the initial value in 1 .. 1000.
C18_SequenceIncrements ==
    /\ ms.frames # <<>> => ms.frames[1] \in 1 .. 1000
    /\ \A i \in 2 .. Len(ms.frames) : ms.frames[i] = ms.frames[i - 1] + 1

\* ---------------------------------------------------------------------
\* C20: with focal_plane_slide_on false, FocalPlaneSlide.action() for any
\* command appends one warning to the log and changes nothing else: no
\* future is started, no checkSlideCommand callback is queued and the
\* recorded position name stays as it was.
C20_DisabledActionOnlyWarns ==
    [][(ev' = "fps_action" /\ ~fps.on)
         => fps' = [fps EXCEPT !.log = Append(@, Warn("access is OFF"))]]_vars

\* a button was pressed with the slide switched off
C20_Witness ==
    /\ ev = "fps_action"
    /\ ~fps.on
    /\ fps.log # <<>>
    /\ fps.log[Len(fps.log)] = Warn("access is OFF")
    /\ fps.running_future = "None"
    /\ fps.after = 0
    /\ fps.where = "UNDEF"

\* ---------------------------------------------------------------------
\* C21: constructing a ReadServer never raises: for a body that is not
\* JSON, or that lacks RETCODE, MESSAGEBUFFER or (with status_msg set)
\* one of the three status fields, it gives ok = False and a non-empty
\* err message.
Parsed == call.fn = "ReadServer" /\ call.done

LacksRequired(body, status_msg) ==
    \/ ~body.json
    \/ body.RETCODE = "absent"
    \/ ~status_msg /\ body.MESSAGEBUFFER = "absent"
    \/ status_msg /\ "absent" \in {body.subStateName, body.expStatusName,
                                   body.newDataFileName.tail}

C21_NeverRaises ==
    Parsed =>
      /\ call.rs.raised = "none"
      /\ LacksRequired(call.body, call.status_msg)
           => /\ {"ok", "err"} \subseteq call.rs.attrs
              /\ call.rs.ok = FALSE
              /\ call.rs.err # ""

\* ---------------------------------------------------------------------
\* C22: for a status response with RETCODE 'OK' whose file name is
\* <non-digits><digits of n>.fits, the run is n + 1 when the exposure
\* state is 'integrating' and n when it is 'success'.
C22_RunNumber ==
    (/\ Parsed
     /\ call.status_msg
     /\ call.body.json
     /\ call.body.RETCODE = "OK"
     /\ call.body.subStateName # "absent"
     /\ call.body.newDataFileName \in FileNames
     /\ call.body.newDataFileName.tail = ".fits"
     /\ call.body.newDataFileName.digits # <<>>)
    => LET n == Dec(call.body.newDataFileName.digits)
       IN  /\ call.body.expStatusName = "integrating" => call.rs.run = n + 1
           /\ call.body.expStatusName = "success" => call.rs.run = n

C22_Witness ==
    /\ Parsed
    /\ call.status_msg
    /\ call.body.json
    /\ call.body.RETCODE = "OK"
    /\ call.body.newDataFileName \in FileNames
    /\ call.body.newDataFileName.lead = "run"
    /\ call.body.newDataFileName.digits = <<0, 4, 2>>
    /\ call.body.newDataFileName.tail = ".fits"
    /\ call.body.expStatusName = "integrating"
    /\ call.rs.run = 43

\* ---------------------------------------------------------------------
\* C23: with hcam_server_on false, execCommand(command) makes no HTTP
\* request, logs a warning and returns False, for every command, and does
\* not raise.
Executed == call.fn = "execCommand" /\ call.done

C23_DisabledExecCommand ==
    (Executed /\ ~call.on) =>
      /\ call.out.requests = 0
      /\ call.out.ret = "False"
      /\ call.out.raised = "none"
      /\ Len(call.out.log) = 1
      /\ call.out.log[1].lvl = "warn"

C23_Witness ==
    /\ Executed
    /\ ~call.on
    /\ call.command = "start"
    /\ call.out.ret = "False"
    /\ call.out.requests = 0

\* ---------------------------------------------------------------------
\* C24: isRunActive() returns False when the parsed state is idle, True
\* when it is active or busy, and fails with an error for any other
\* parsed state or when the servers are switched off.
Polled == call.fn = "isRunActive" /\ call.done

\* the summary was fetched and parsed, and ReadServer reports it ok
ParsedState(state) ==
    /\ call.on
    /\ call.net.err = "none"
    /\ ReadServer_init(call.net.body, TRUE).raised = "none"
    /\ ReadServer_init(call.net.body, TRUE).ok
    /\ ReadServer_init(call.net.body, TRUE).state = state

Uploaded == call.fn = "upload_telemetry" /\ call.done

ValidTelemetry(device, keys) ==
    /\ Lower(device) \in TokenDevices
    /\ keys \subseteq ALLOWED_PROPERTIES(Lower(device))

C25_InvalidInputBeforeRequest ==
    Uploaded =>
      IF ValidTelemetry(call.device, call.keys)
      THEN call.out.requests = 1
      ELSE call.out.raised = "ValueError" /\ call.out.requests = 0

Arithmetic(e, op, n) ==
    LET v == IF e.blank THEN 0 ELSE e.value
    IN  IF op = "mint_add" THEN v + n ELSE v - n

TravelsUp(op, n) == (op = "mint_add") = (n > 0)

C27_LocksToMultiple ==
    [][ev' \in {"mint_add", "mint_sub"} =>
         LET r == Arithmetic(ent, ev', ent'.n)
             v == ent'.value
             c == ent.chunk
         IN  /\ ~ent'.blank
             /\ v % c = 0
             /\ ent.imin <= v /\ v <= ent.imax
             /\ IF TravelsUp(ev', ent'.n)
                THEN /\ v >= r => (v - c < r \/ v - c < ent.imin)
                     /\ v < r => v + c > ent.imax
                ELSE /\ v <= r => (v + c > r \/ v + c > ent.imax)
                     /\ v > r => v - c < ent.imin]_vars

\* min=1, max=1024, factor=8, value=5: add(1) has given 8
C27_Witness ==
    /\ ev = "mint_add"
    /\ ent.n = 1
    /\ ent.imin = 1
    /\ ent.imax = 1024
    /\ ent.chunk = 8
    /\ ent.value = 8

\* ---------------------------------------------------------------------
\* C28: after any sequence of set(), add(), sub() calls and user edits on
\* a ListInt the value is a member of the allowed list and equals
\* allowed[index], so that add(1) and sub(1) move to the entry next to the
\* current value.
C28_ValueAtIndex ==
    ent.kind = "ListInt" =>
      /\ ent.value \in Members(ent.allowed)
      /\ ent.value = ent.allowed[ent.index]

\* ---------------------------------------------------------------------
\* C29: with a log entry present, get_latest() raises the stale-data
\* error (VacuumGaugeError) exactly when the entry's time, logging start
\* plus its elapsed time, is more than 10 minutes before now, and
\* otherwise returns the last logged pressure.
C29_StaleExactlyWhenOld ==
    (ev = "pdr_get_latest" /\ pdr.rows # <<>>) =>
      LET last_row == pdr.rows[Len(pdr.rows)]
          old == pdr.now - (pdr.start + last_row.elapsed) > StaleMinutes
      IN  IF old THEN pdr.last.raised = "VacuumGaugeError"
          ELSE pdr.last.raised = "none" /\ pdr.last.value = last_row.pressure

(***************************************************************************)
(* C30.  The DET.* parameters the panel's geometry implies.                *)
(***************************************************************************)
Translated == call.fn = "obsmode" /\ call.stage = "translated"

\* the geometry keys a document carries beside the keys every mode has
GeometryKeys(doc) ==
    DOMAIN doc \ {"numexp", "app", "led_flsh", "dummy_out", "readout",
                  "dwell", "exptime", "oscan", "oscany", "xbin", "ybin",
                  "multipliers", "clear"}

\* the keys get_obsmode reads from a document of the given mode
TranslatorKeys(doc) ==
    IF doc["app"] = "Windows" THEN Windows_keys(doc)
    ELSE IF doc["app"] = "Drift" THEN Drift_keys
    ELSE {}

\* C30: for a FullFrame, Windows (one or two quads) or Drift panel the
\* document of dumpJSON is accepted by get_obsmode, every geometry key it
\* carries is one the translator reads, and the binning and window
\* parameters are those of the panel.
C30_RoundTrip ==
    Translated =>
      LET p == call.panel
          d == call.out.detpars
      IN  /\ call.out.raised = "none"
          /\ GeometryKeys(call.doc) \subseteq TranslatorKeys(call.doc)
          /\ d["DET.BINX1"] = p.xbin
          /\ d["DET.BINY1"] = p.ybin
          /\ p.app = "Drift" =>
               /\ d["DET.DRWIN.NX"] = p.pair.nx
               /\ d["DET.DRWIN.NY"] = p.pair.ny
               /\ d["DET.DRWIN.YS"] = p.pair.ys - 1
               /\ d["DET.DRWIN.XSE"] = p.pair.xsl - 1
               /\ d["DET.DRWIN.XSF"] = 2049 - p.pair.xsr - p.pair.nx
          /\ p.app = "Windows" =>
               /\ d["DET.WIN1.NX"] = p.quads[1].nx
               /\ d["DET.WIN1.NY"] = p.quads[1].ny
               /\ d["DET.WIN1.YS"] = p.quads[1].ys - 1
               /\ d["DET.WIN1.XSE"] = p.quads[1].xsll - 1
               /\ d["DET.WIN1.XSF"] = 2049 - p.quads[1].xslr - p.quads[1].nx
               /\ d["DET.WIN1.XSG"] = 2049 - p.quads[1].xsur - p.quads[1].nx
               /\ d["DET.WIN1.XSH"] = p.quads[1].xsul - 1
               /\ ("DET.WIN2.NX" \in DOMAIN d) = (Len(p.quads) = 2)
               /\ Len(p.quads) = 2 =>
                    /\ d["DET.WIN2.NX"] = p.quads[2].nx
                    /\ d["DET.WIN2.NY"] = p.quads[2].ny
                    /\ d["DET.WIN2.YS"] = p.quads[2].ys - 1
                    /\ d["DET.WIN2.XSE"] = p.quads[2].xsll - 1
                    /\ d["DET.WIN2.XSF"] =
                         2049 - p.quads[2].xslr - p.quads[2].nx
                    /\ d["DET.WIN2.XSG"] =
                         2049 - p.quads[2].xsur - p.quads[2].nx
                    /\ d["DET.WIN2.XSH"] = p.quads[2].xsul - 1

(***************************************************************************)
(* C31.  The callbacks of the run timer.                                   *)
(***************************************************************************)
\* C31 as stated: at most one Timer.update callback is queued in Tk at any
\* time, and once Timer.stop() has run (Timer.id is None) none is queued,
\* so no tick fires until the next start().
C31_OneCallback ==
    /\ pending <= 1
    /\ timerId = "none" => pending = 0

(***************************************************************************)
(* C32.  What Stop.check takes as success.                                 *)
(***************************************************************************)
\* C32 as stated: Stop.check reports the run stopped only if a stop command
\* issued for the current run has completed successfully.  A successful
\* 'stop' ends the run on the server and only a new start begins another,
\* so a check that reports success never does so while the run it is asked
\* about is still active.
C32_StoppedOnlyAfterStop == ev = "check_stopped" => ~runActive

(***************************************************************************)
(* C33.  Sequence numbers of concurrent Meerstetter callers.               *)
(***************************************************************************)
\* the caller's frame has gone out on the wire: it awaits the response, or
\* its call came back from _check_response
FrameSent(t) ==
    \/ ms.th[t].pc = "recv"
    \/ /\ ms.th[t].pc = "idle"
       /\ ms.th[t].result \in {"accepted", "IOError", "IndexError"}

\* C33 as stated: the frames concurrent callers of one handle send carry
\* distinct sequence numbers, and a response is accepted for a caller only
\* if it repeats the sequence field of that caller's own request.
C33_DistinctSequence ==
    \A t, u \in MsCallers :
      /\ (t # u /\ FrameSent(t) /\ FrameSent(u))
           => ms.th[t].frame.seq # ms.th[u].frame.seq
      /\ (ms.th[t].pc = "idle" /\ ms.th[t].result = "accepted")
           => ms.th[t].ret.seq = ms.th[t].frame.seq

C35_OneCycle ==
    /\ mon.nthreads <= 1
    /\ mon.after <= 1
    /\ Len(mon.queue) <= 1
    /\ mon.nthreads + Len(mon.queue) <= 1

\* process_update found the queue empty while the thread was still running
\* and queued itself again
C35_Witness ==
    /\ ev = "mon_wait"
    /\ mon.nthreads = 1
    /\ mon.after = 1
    /\ mon.timer = "process_update"
    /\ mon.queue = <<>>

(***************************************************************************)
(* C36.  Sound processes across all alarm dialogs.                         *)
(***************************************************************************)
\* C36 as stated: across all dialogs at most one sound process is alive at
\* any time, and when dialogs were raised and every one of them has been
\* dismissed, no sound process is alive and alarm_playing is False.
C36_OneSoundProcess ==
    /\ Cardinality({d \in Dialogs : Alive(al.dlg[d])}) <= 1
    /\ (\A d \in Dialogs : al.dlg[d].state # "open")
         => /\ \A d \in Dialogs : ~Alive(al.dlg[d])
            /\ ~al.alarm_playing

(***************************************************************************)
(* C37.  _send_frame leaves neither the lock nor a socket behind.          *)
(***************************************************************************)
\* C37: a caller that is not inside the with block of _send_frame, in
\* particular one whose call has ended with a connection failure, a
\* receive timeout or a missing 'Welcome', holds neither the lock nor an
\* open socket; the lock is held only by a caller inside the block and
\* every open socket belongs to the caller that holds the lock.
C37_ReleasedOnEveryExit ==
    /\ \A t \in MsCallers :
         t \notin InConversation => (ms.lock # t /\ t \notin ms.open)
    /\ ms.lock # 0 => ms.lock \in InConversation
    /\ ms.open \subseteq {ms.lock}

\* one call failed for want of the 'Welcome' preamble and a later call on
\* the same handle is inside its conversation
C37_Witness ==
    \E t, u \in MsCallers :
      /\ ms.th[t].pc = "idle"
      /\ ms.th[t].result \in {"no_welcome", "socket_error"}
      /\ ms.th[u].pc = "recv"
      /\ ms.lock = u

(***************************************************************************)
(* C38.  Leaving execute_bulk_commands.                                    *)
(***************************************************************************)
\* C38 as stated: when a with block of execute_bulk_commands has been left,
\* normally or through an exception of the body or of sending the batch,
\* the controller executes immediately again and its list of pending
\* commands is empty.
C38_BackToImmediate ==
    (esp.built /\ ev \in {"esp_leave", "esp_body_raised"}) =>
       /\ esp.immediate
       /\ esp.command_list = <<>>

(***************************************************************************)
(* C39.  Moves outside the range of the slide.                             *)
(***************************************************************************)
MovePackets == {"MOVE_ABSOLUTE", "MOVE_RELATIVE"}

\* the call asked for a target outside [MIN_MS, MAX_MS]; for a relative
\* move the target is the device's position plus the step
AsksOutOfRange ==
    /\ call.fn = "move"
    /\ call.done
    /\ LET c == convert_to_microstep(call.amount, call.units)
           target == IF call.kind = "absolute" THEN c.nstep
                     ELSE call.dev.pos + c.nstep
       IN  /\ c.raised = "none"
           /\ target \notin MIN_MS .. MAX_MS

PacketsOf(sent) == {sent[i] : i \in 1 .. Len(sent)}

\* C39 as stated: a move whose target lies outside the range fails with an
\* error before anything is sent.
C39_Original ==
    AsksOutOfRange => (call.out.raised # "none" /\ call.out.sent = <<>>)

\* C39 amended: a move whose target lies outside the range fails with an
\* error and sends no MOVE_ABSOLUTE or MOVE_RELATIVE packet; an absolute
\* move fails before anything is sent, a relative move after the
\* RETURN_SETTING and POSITION queries that tell it where the slide is.
C39_Amended ==
    AsksOutOfRange =>
       /\ call.out.raised # "none"
       /\ PacketsOf(call.out.sent) \cap MovePackets = {}
       /\ call.kind = "absolute" => call.out.sent = <<>>
       /\ call.kind = "relative" =>
            PacketsOf(call.out.sent) \subseteq {"RETURN_SETTING", "POSITION"}

\* a relative move from position 1664000 by one microstep was refused
\* after the slide had told its position
C39_Witness ==
    /\ AsksOutOfRange
    /\ call.kind = "relative"
    /\ call.dev.pos = MAX_MS
    /\ call.out.raised = "TypeError"
    /\ call.out.sent = <<"RETURN_SETTING", "POSITION">>


(***************************************************************************)
(* C40.  ReadServer.ok and the RETCODE field.                              *)
(***************************************************************************)
\* C40: for a body that parses as JSON, a ReadServer that was built has
\* ok True only if the body's RETCODE is 'OK', with and without status_msg.
C40_OkOnlyIfRetcodeOK ==
    (/\ call.fn = "ReadServer"
     /\ call.done
     /\ call.body.json
     /\ call.rs.raised = "none"
     /\ call.rs.ok)
       => call.body.RETCODE = "OK"

=============================================================================
